---- MODULE Spec2Model ----
(***************************************************************************)
(* Seat-based room actors of src/src/index.js (second module of the file,  *)
(* lines 220-1228): GomokuRoom (/ws) and the Xiangqi side of RelayRoom     *)
(* (/relay?game=xq).                                                       *)
(*                                                                         *)
(* One behaviour follows ONE room actor.  `kind` is chosen in Init and     *)
(* says which actor it is; the record of the other kind stays at its       *)
(* default.  Every handler (open = fetch, message, close) is one atomic    *)
(* action: the runtime's input gate keeps other events of the same object  *)
(* out while a handler awaits storage.                                     *)
(*                                                                         *)
(* The state space of one room is the product of its seats, its clock and  *)
(* its game, so the clients of a behaviour are of one of three populations *)
(* (`clients`, chosen in Init).  "players" connect without a token, to     *)
(* play or to watch, and send moves, timeouts and votes while the clock    *)
(* stands still.  "voters" connect without a token and send timeouts,      *)
(* votes and leaves, again with the clock standing still.  "lobby"         *)
(* clients connect with every token and every seat wish while time passes; *)
(* they keep or lose their seats by connecting and closing only, and the   *)
(* one message they send is a rematch vote (which no game of theirs is     *)
(* over to take).                                                          *)
(*                                                                         *)
(* A second specification, SpecWin, starts late in a Gomoku game: in Init  *)
(* ("endgame" clients) black and white are seated and attached, and the    *)
(* board holds four or five black stones on one line through the centre,   *)
(* with as many white stones away from them; the players then move.        *)
(* A third, SpecMate, starts four plies into a Xiangqi game that red can   *)
(* end by a double-cannon mate three plies later ("mate" clients): red and *)
(* black are seated and attached, and move, run out of time and vote.      *)
(* A fourth, SpecLeave, follows a Xiangqi room whose clients ("leavers")   *)
(* connect without a token and with every seat wish, give their seats up   *)
(* by xq_leave and stay connected, and close, while time passes.           *)
(* A fifth, SpecFault, follows rooms of "players" whose storage may refuse *)
(* the put of a move: the handler throws at the put.                       *)
(* A sixth, SpecRoute, follows one RelayRoom actor and the /relay requests *)
(* ("callers") whose game and room parameters give the actor's name.       *)
(* A seventh, SpecLegacy, follows the GomokuRoom of the connection-order   *)
(* variant, whose listeners keep the room their fetch loaded.              *)
(*                                                                         *)
(* Fan-out set: getWebSockets() is modelled as the sockets whose status is *)
(* "open".  A socket the server closed (ws.close) leaves the set at once   *)
(* (status "closing") and its close event is delivered later; a socket the *)
(* client closed is already out of the set when its close handler runs.    *)
(* A socket whose close event was served frees its slot of `ws`.           *)
(***************************************************************************)
EXTENDS FiniteSets, Integers, Sequences, TLC

\* ---------------------------------------------------------------- bounds
MaxConns == 2        \* sockets one room has at the same time
MaxUuid == 3         \* seat tokens one room mints in a behaviour
MaxMoves == 2        \* length of the persisted moves list
MaxNow == 540003     \* the clock stops advancing here
Now0 == 180001       \* Date.now() of the first event
MaxStones == 11      \* length of the moves list of an endgame
MaxPlies == 7        \* length of the moves list of a mating line

\* ------------------------------------------------------ program constants
SIZE == 19
GOMOKU_BLACK == 1
GOMOKU_WHITE == 2
GM_GRACE_MS == 3 * 60 * 1000

Conn == 1..MaxConns

VARIABLES
  kind,      \* "gomoku" | "xq": which room actor this behaviour follows
  clients,   \* "players" | "voters" | "lobby" | ...: what the clients do
  gm_room,   \* storage key "gm_room" (read through `|| _defaultRoom()`)
  xq_room,   \* storage key "xq_room" (read through `|| _xqDefaultRoom()`)
  ws,        \* per socket: status, attachment, close reason, role at open
  uuid,      \* number of crypto.randomUUID() calls so far
  now,       \* Date.now()
  out        \* what the last handler sent, in order

vars == <<kind, clients, gm_room, xq_room, ws, uuid, now, out>>

\* ------------------------------------------------------------- plumbing
null == [game |-> "null"]

randomUUID(n) == "u" \o ToString(n + 1)

\* A JSON value read by `x | 0`.  A number is held as w * 2^32 + v with v in
\* the signed 32-bit range (TLC's integers are 32 bits wide); ToInt32 keeps
\* the low 32 bits, and undefined becomes 0.
Undefined == [k |-> "undefined"]
Num(w, v) == [k |-> "number", w |-> w, v |-> v]
ToInt32(x) == IF x.k = "number" THEN x.v ELSE 0

\* a socket slot no connection uses
NoSocket == [status |-> "free", att |-> null, closed |-> "", you |-> 0]

getWebSockets == {w \in Conn : ws[w].status = "open"}

RECURSIVE SetToSeq(_)
SetToSeq(S) ==
  IF S = {} THEN <<>>
  ELSE LET m == CHOOSE a \in S : \A b \in S : a <= b
       IN <<m>> \o SetToSeq(S \ {m})

\* ws.send(JSON.stringify(m)) to one socket
send(w, m) == [to |-> {w}, m |-> m]

\* a _broadcast whose loop misses the first socket of two or more
_broadcast_MissesOne(socks, m) ==
  [to |-> IF Cardinality(socks) > 1
            THEN socks \ {CHOOSE a \in socks : \A b \in socks : a <= b}
            ELSE socks,
   m |-> m]
\* _broadcast(payload) over a snapshot of getWebSockets()
_broadcast(socks, m) == [to |-> socks, m |-> m]

_broadcastPresence(socks) ==
  _broadcast(socks, [type |-> "presence", n |-> Cardinality(socks)])

\* ------------------------------------------------------------ GomokuRoom
NoVotes == [b \in {1, 2} |-> FALSE]

_defaultRoom ==
  [blackToken |-> "", whiteToken |-> "",
   blackLastSeen |-> 0, whiteLastSeen |-> 0,
   moves |-> <<>>, current |-> GOMOKU_BLACK,
   gameOver |-> FALSE, winner |-> 0, reason |-> "",
   rematch |-> NoVotes, swap |-> NoVotes]

\* a _roleFromToken without its `if (!token) return 0`
_roleFromToken_EmptyMatches(token, room) ==
  IF token = room.blackToken THEN GOMOKU_BLACK
  ELSE IF token = room.whiteToken THEN GOMOKU_WHITE
  ELSE 0

_roleFromToken(token, room) ==
  IF token = "" THEN 0
  ELSE IF token = room.blackToken THEN GOMOKU_BLACK
  ELSE IF token = room.whiteToken THEN GOMOKU_WHITE
  ELSE 0

\* a _countOnlineByRoleWithRoom that finds no holder attached
_countOnlineByRoleWithRoom_Nobody(room, socks) ==
  [role \in {GOMOKU_BLACK, GOMOKU_WHITE} |-> 0]

_countOnlineByRoleWithRoom(room, socks) ==
  [role \in {GOMOKU_BLACK, GOMOKU_WHITE} |->
     Cardinality({w \in socks :
        /\ ws[w].att.game = "gomoku"
        /\ _roleFromToken(ws[w].att.token, room) = role})]

\* a _kickSameToken that closes nobody
_kickSameToken_Nobody(currentWs, token, socks) == {}

\* the sockets _kickSameToken closes with (1000, "reconnect")
_kickSameToken(currentWs, token, socks) ==
  IF token = "" THEN {}
  ELSE {w \in socks \ {currentWs} :
          /\ ws[w].att.game = "gomoku"
          /\ ws[w].att.token # ""
          /\ ws[w].att.token = token}

_broadcastSeats(socks, room) ==
  _broadcast(socks, [type |-> "gm_seats",
                     seats |-> [black |-> room.blackToken # "",
                                white |-> room.whiteToken # ""]])

\* an isOccupied that never finds a stone
isOccupied_Never(moves, r, c) == FALSE

isOccupied(moves, r, c) ==
  \E i \in 1..Len(moves) : moves[i].r = r /\ moves[i].c = c

\* number of consecutive stones of s from (r,c) in direction (dr,dc), k = 1..4
RECURSIVE Run(_, _, _, _, _, _)
Run(s, r, c, dr, dc, k) ==
  IF k < 5 /\ <<r + dr * k, c + dc * k>> \in s
    THEN 1 + Run(s, r, c, dr, dc, k + 1)
    ELSE 0

\* a checkWin that looks along rows and columns only
checkWin_NoDiagonal(moves, r, c, p) ==
  LET s == {<<moves[i].r, moves[i].c>> : i \in {j \in 1..Len(moves) : moves[j].p = p}}
      dirs == {<<1, 0>>, <<0, 1>>}
  IN \E d \in dirs :
       1 + Run(s, r, c, d[1], d[2], 1) + Run(s, r, c, -d[1], -d[2], 1) >= 5
checkWin(moves, r, c, p) ==
  LET s == {<<moves[i].r, moves[i].c>> : i \in {j \in 1..Len(moves) : moves[j].p = p}}
      dirs == {<<1, 0>>, <<0, 1>>, <<1, 1>>, <<1, -1>>}
  IN \E d \in dirs :
       1 + Run(s, r, c, d[1], d[2], 1) + Run(s, r, c, -d[1], -d[2], 1) >= 5

\* a canSteal with `>=` for `>`
canSteal_AtGrace(seatToken, online, t, lastSeen, grace) ==
  seatToken # "" /\ online = 0 /\ t - lastSeen >= grace

\* const canStealBlack = room.blackToken && onlineCount === 0 && now - lastSeen > GRACE
canSteal(seatToken, online, t, lastSeen, grace) ==
  seatToken # "" /\ online = 0 /\ t - lastSeen > grace

\* a resume that mints a new token for the seat
GmResume_Mints(room, you, token, t, n) ==
  [you |-> you, token |-> randomUUID(n), n |-> n + 1,
   room |-> IF you = GOMOKU_BLACK
              THEN [room EXCEPT !.blackToken = randomUUID(n), !.blackLastSeen = t]
              ELSE [room EXCEPT !.whiteToken = randomUUID(n), !.whiteLastSeen = t]]

\* the `else` of step 2 (lines 319-323): the presented token is a seat's token
GmResume(room, you, token, t, n) ==
  [you |-> you, token |-> token, n |-> n,
   room |-> IF you = GOMOKU_BLACK THEN [room EXCEPT !.blackLastSeen = t]
            ELSE [room EXCEPT !.whiteLastSeen = t]]

\* seat allocation of fetch (lines 286-330): role, token, record, UUIDs used
GmAllocate(room, tokenParam, want, onlineCount, t, n) ==
  LET token == tokenParam
      you == IF token # "" /\ token = room.blackToken THEN GOMOKU_BLACK
             ELSE IF token # "" /\ token = room.whiteToken THEN GOMOKU_WHITE
             ELSE 0
      canStealBlack == canSteal(room.blackToken, onlineCount[GOMOKU_BLACK], t,
                                room.blackLastSeen, GM_GRACE_MS)
      canStealWhite == canSteal(room.whiteToken, onlineCount[GOMOKU_WHITE], t,
                                room.whiteLastSeen, GM_GRACE_MS)
      wantBlack == want \in {"black", "b", "1"}
      wantWhite == want \in {"white", "w", "2"}
      wantSpectate == want \in {"spectate", "watch", "0"}
      wantAuto == want \in {"auto", ""}
      takeBlack == /\ ~wantSpectate /\ (wantBlack \/ wantAuto)
                   /\ (room.blackToken = "" \/ canStealBlack)
      takeWhite == /\ ~takeBlack
                   /\ ~wantSpectate /\ (wantWhite \/ wantAuto)
                   /\ (room.whiteToken = "" \/ canStealWhite)
      a == IF you = 0
             THEN IF takeBlack
                    THEN [you |-> GOMOKU_BLACK, token |-> randomUUID(n), n |-> n + 1,
                          room |-> [room EXCEPT !.blackToken = randomUUID(n),
                                                !.blackLastSeen = t]]
                  ELSE IF takeWhite
                    THEN [you |-> GOMOKU_WHITE, token |-> randomUUID(n), n |-> n + 1,
                          room |-> [room EXCEPT !.whiteToken = randomUUID(n),
                                                !.whiteLastSeen = t]]
                  ELSE [you |-> 0, token |-> token, n |-> n, room |-> room]
             ELSE GmResume(room, you, token, t, n)
  IN \* fallback: seated but token empty
     IF a.you \in {GOMOKU_BLACK, GOMOKU_WHITE} /\ a.token = ""
       THEN [you |-> a.you, token |-> randomUUID(a.n), n |-> a.n + 1,
             room |-> IF a.you = GOMOKU_BLACK
                        THEN [a.room EXCEPT !.blackToken = randomUUID(a.n)]
                        ELSE [a.room EXCEPT !.whiteToken = randomUUID(a.n)]]
       ELSE a

GmInit(you, token, room) ==
  [type |-> "init", you |-> you,
   token |-> IF you \in {GOMOKU_BLACK, GOMOKU_WHITE} THEN token ELSE "",
   moves |-> room.moves, current |-> room.current, gameOver |-> room.gameOver,
   winner |-> room.winner, reason |-> room.reason,
   seats |-> [black |-> room.blackToken # "", white |-> room.whiteToken # ""],
   votes |-> [rematch |-> room.rematch, swap |-> room.swap]]

\* async fetch(request): a connection opens
\* a fetch that broadcasts presence and seats before it sends the init
GomokuRoom_fetch_InitLast(c, tokenParam, want) ==
  /\ kind = "gomoku"
  /\ ws[c].status = "free"
  /\ \A b \in 1..(c - 1) : ws[b].status # "free"
  /\ uuid < MaxUuid
  /\ LET admitted == getWebSockets \cup {c}
         onlineCount == _countOnlineByRoleWithRoom(gm_room, getWebSockets)
         a == GmAllocate(gm_room, tokenParam, want, onlineCount, now, uuid)
         kicked == _kickSameToken(c, a.token, admitted)
         socks == admitted \ kicked
     IN /\ gm_room' = a.room
        /\ uuid' = a.n
        /\ ws' = [w \in Conn |->
                    IF w = c
                      THEN [status |-> "open",
                            att |-> [game |-> "gomoku", token |-> a.token],
                            closed |-> "", you |-> a.you]
                    ELSE IF w \in kicked
                      THEN [ws[w] EXCEPT !.status = "closing", !.closed = "reconnect"]
                    ELSE ws[w]]
        /\ out' = <<_broadcastPresence(socks),
                    _broadcastSeats(socks, a.room),
                    send(c, GmInit(a.you, a.token, a.room))>>
  /\ UNCHANGED <<kind, clients, xq_room, now>>
GomokuRoom_fetch(c, tokenParam, want) ==
  /\ kind = "gomoku"
  /\ ws[c].status = "free"
  /\ \A b \in 1..(c - 1) : ws[b].status # "free"
  /\ uuid < MaxUuid
  /\ LET admitted == getWebSockets \cup {c}
         onlineCount == _countOnlineByRoleWithRoom(gm_room, getWebSockets)
         a == GmAllocate(gm_room, tokenParam, want, onlineCount, now, uuid)
         kicked == _kickSameToken(c, a.token, admitted)
         socks == admitted \ kicked
     IN /\ gm_room' = a.room
        /\ uuid' = a.n
        /\ ws' = [w \in Conn |->
                    IF w = c
                      THEN [status |-> "open",
                            att |-> [game |-> "gomoku", token |-> a.token],
                            closed |-> "", you |-> a.you]
                    ELSE IF w \in kicked
                      THEN [ws[w] EXCEPT !.status = "closing", !.closed = "reconnect"]
                    ELSE ws[w]]
        /\ out' = <<send(c, GmInit(a.you, a.token, a.room)),
                    _broadcastPresence(socks),
                    _broadcastSeats(socks, a.room)>>
  /\ UNCHANGED <<kind, clients, xq_room, now>>

\* The strings of the source are Chinese; the model names them in ASCII.
WU_LIAN == "five-in-a-row"            \* reason of a five-in-a-row win
CHAO_SHI == "timeout-loss"            \* reason of a timeout
REJ_SPECTATOR == "spectators cannot play"
REJ_OVER == "game is over"
REJ_TURN == "not your turn"
REJ_BOUNDS == "out of bounds"
REJ_OCCUPIED == "cell is occupied"

Other(role) == IF role = 1 THEN 2 ELSE 1

votes(room) ==
  [type |-> "votes", votes |-> [rematch |-> room.rematch, swap |-> room.swap]]

state(room) ==
  [type |-> "state", moves |-> <<>>, current |-> room.current, gameOver |-> FALSE]

\* a reject that goes to every attached socket
GmReject_ToAll(room, c, reason) ==
  [room |-> room,
   out |-> <<_broadcast(getWebSockets, [type |-> "reject", reason |-> reason])>>]
\* reject(reason): a reject to the sender, nothing stored
GmReject(room, c, reason) ==
  [room |-> room, out |-> <<send(c, [type |-> "reject", reason |-> reason])>>]

\* a move handler without `if (room.gameOver) return reject(...)`
GmMove_IgnoresGameOver(room, c, role, msg, t, socks) ==
  LET isPlayer == role \in {GOMOKU_BLACK, GOMOKU_WHITE}
      r == ToInt32(msg.r)
      cc == ToInt32(msg.c)
      pushed == Append(room.moves, [r |-> r, c |-> cc, p |-> role])
      seen == IF role = GOMOKU_BLACK
                THEN [room EXCEPT !.moves = pushed, !.blackLastSeen = t,
                                  !.rematch = NoVotes, !.swap = NoVotes]
                ELSE [room EXCEPT !.moves = pushed, !.whiteLastSeen = t,
                                  !.rematch = NoVotes, !.swap = NoVotes]
      passed == [seen EXCEPT !.current = Other(role)]
  IN IF ~isPlayer THEN GmReject(room, c, REJ_SPECTATOR)
     ELSE IF room.current # role THEN GmReject(room, c, REJ_TURN)
     ELSE IF r < 0 \/ r >= SIZE \/ cc < 0 \/ cc >= SIZE THEN GmReject(room, c, REJ_BOUNDS)
     ELSE IF isOccupied(room.moves, r, cc) THEN GmReject(room, c, REJ_OCCUPIED)
     ELSE [room |-> passed,
           out |-> <<_broadcast(socks, [type |-> "move", r |-> r, c |-> cc,
                                        p |-> role, next |-> passed.current])>>]

\* a move handler that leaves the vote maps as they are
GmMove_KeepsVotes(room, c, role, msg, t, socks) ==
  LET isPlayer == role \in {GOMOKU_BLACK, GOMOKU_WHITE}
      r == ToInt32(msg.r)
      cc == ToInt32(msg.c)
      pushed == Append(room.moves, [r |-> r, c |-> cc, p |-> role])
      seen == IF role = GOMOKU_BLACK
                THEN [room EXCEPT !.moves = pushed, !.blackLastSeen = t]
                ELSE [room EXCEPT !.moves = pushed, !.whiteLastSeen = t]
      won == [seen EXCEPT !.gameOver = TRUE, !.winner = role, !.reason = WU_LIAN]
      passed == [seen EXCEPT !.current = Other(role)]
  IN IF ~isPlayer THEN GmReject(room, c, REJ_SPECTATOR)
     ELSE IF room.gameOver THEN GmReject(room, c, REJ_OVER)
     ELSE IF room.current # role THEN GmReject(room, c, REJ_TURN)
     ELSE IF r < 0 \/ r >= SIZE \/ cc < 0 \/ cc >= SIZE THEN GmReject(room, c, REJ_BOUNDS)
     ELSE IF isOccupied(room.moves, r, cc) THEN GmReject(room, c, REJ_OCCUPIED)
     ELSE IF checkWin(pushed, r, cc, role)
       THEN [room |-> won,
             out |-> <<_broadcast(socks, [type |-> "move", r |-> r, c |-> cc,
                                          p |-> role, win |-> role])>>]
       ELSE [room |-> passed,
             out |-> <<_broadcast(socks, [type |-> "move", r |-> r, c |-> cc,
                                          p |-> role, next |-> passed.current])>>]
\* ---- move (lines 381-412)
GmMove(room, c, role, msg, t, socks) ==
  LET isPlayer == role \in {GOMOKU_BLACK, GOMOKU_WHITE}
      r == ToInt32(msg.r)
      cc == ToInt32(msg.c)
      pushed == Append(room.moves, [r |-> r, c |-> cc, p |-> role])
      seen == IF role = GOMOKU_BLACK
                THEN [room EXCEPT !.moves = pushed, !.blackLastSeen = t,
                                  !.rematch = NoVotes, !.swap = NoVotes]
                ELSE [room EXCEPT !.moves = pushed, !.whiteLastSeen = t,
                                  !.rematch = NoVotes, !.swap = NoVotes]
      won == [seen EXCEPT !.gameOver = TRUE, !.winner = role, !.reason = WU_LIAN]
      passed == [seen EXCEPT !.current = Other(role)]
  IN IF ~isPlayer THEN GmReject(room, c, REJ_SPECTATOR)
     ELSE IF room.gameOver THEN GmReject(room, c, REJ_OVER)
     ELSE IF room.current # role THEN GmReject(room, c, REJ_TURN)
     ELSE IF r < 0 \/ r >= SIZE \/ cc < 0 \/ cc >= SIZE THEN GmReject(room, c, REJ_BOUNDS)
     ELSE IF isOccupied(room.moves, r, cc) THEN GmReject(room, c, REJ_OCCUPIED)
     ELSE IF checkWin(pushed, r, cc, role)
       THEN [room |-> won,
             out |-> <<_broadcast(socks, [type |-> "move", r |-> r, c |-> cc,
                                          p |-> role, win |-> role])>>]
       ELSE [room |-> passed,
             out |-> <<_broadcast(socks, [type |-> "move", r |-> r, c |-> cc,
                                          p |-> role, next |-> passed.current])>>]

\* a timeout handler that also takes the last move back
GmTimeout_TakesBack(room, c, role, socks) ==
  LET isPlayer == role \in {GOMOKU_BLACK, GOMOKU_WHITE}
      over == [room EXCEPT !.gameOver = TRUE, !.winner = Other(role),
                           !.reason = CHAO_SHI,
                           !.moves = SubSeq(@, 1, Len(@) - 1)]
  IN IF ~isPlayer THEN GmReject(room, c, REJ_SPECTATOR)
     ELSE IF room.gameOver THEN GmReject(room, c, REJ_OVER)
     ELSE IF room.current # role THEN GmReject(room, c, REJ_TURN)
     ELSE [room |-> over,
           out |-> <<_broadcast(socks, [type |-> "move", r |-> -1, c |-> -1, p |-> role,
                                        win |-> over.winner, reason |-> over.reason])>>]
\* ---- timeout (lines 415-426)
GmTimeout(room, c, role, socks) ==
  LET isPlayer == role \in {GOMOKU_BLACK, GOMOKU_WHITE}
      over == [room EXCEPT !.gameOver = TRUE, !.winner = Other(role),
                           !.reason = CHAO_SHI]
  IN IF ~isPlayer THEN GmReject(room, c, REJ_SPECTATOR)
     ELSE IF room.gameOver THEN GmReject(room, c, REJ_OVER)
     ELSE IF room.current # role THEN GmReject(room, c, REJ_TURN)
     ELSE [room |-> over,
           out |-> <<_broadcast(socks, [type |-> "move", r |-> -1, c |-> -1, p |-> role,
                                        win |-> over.winner, reason |-> over.reason])>>]

\* a reset that leaves the vote maps as they are
GmNewGame_KeepsVotes(room) ==
  [room EXCEPT !.moves = <<>>, !.current = GOMOKU_BLACK, !.gameOver = FALSE,
               !.winner = 0, !.reason = ""]

\* the new game of a rematch or swap reset (lines 441-447, 478-484)
GmNewGame(room) ==
  [room EXCEPT !.moves = <<>>, !.current = GOMOKU_BLACK, !.gameOver = FALSE,
               !.winner = 0, !.reason = "",
               !.rematch = NoVotes, !.swap = NoVotes]

\* a rematch handler that resets without looking at the seats
GmRematch_IgnoresSeats(room, c, role, socks) ==
  LET isPlayer == role \in {GOMOKU_BLACK, GOMOKU_WHITE}
      voted == [room EXCEPT !.rematch[role] = TRUE]
      pending == <<_broadcast(socks, [type |-> "rematch_pending"]),
                   _broadcast(socks, votes(voted))>>
      reset == [voted EXCEPT !.moves = <<>>, !.current = GOMOKU_BLACK,
                             !.gameOver = FALSE, !.winner = 0, !.reason = "",
                             !.rematch = NoVotes, !.swap = NoVotes]
  IN IF ~isPlayer THEN [room |-> room, out |-> <<>>]
     ELSE IF ~room.gameOver THEN [room |-> room, out |-> <<>>]
     ELSE IF voted.rematch[GOMOKU_BLACK] /\ voted.rematch[GOMOKU_WHITE]
       THEN [room |-> reset,
             out |-> pending \o <<_broadcast(socks, [type |-> "state", moves |-> <<>>,
                                     current |-> reset.current, gameOver |-> FALSE]),
                                  _broadcast(socks, votes(reset))>>]
       ELSE [room |-> voted, out |-> pending]

\* a rematch handler whose second vote takes the first one back
GmRematch_Toggles(room, c, role, socks) ==
  LET isPlayer == role \in {GOMOKU_BLACK, GOMOKU_WHITE}
      voted == [room EXCEPT !.rematch[role] = ~@]
      pending == <<_broadcast(socks, [type |-> "rematch_pending"]),
                   _broadcast(socks, votes(voted))>>
      reset == GmNewGame(voted)
  IN IF ~isPlayer THEN [room |-> room, out |-> <<>>]
     ELSE IF ~room.gameOver THEN [room |-> room, out |-> <<>>]
     ELSE IF /\ voted.rematch[GOMOKU_BLACK] /\ voted.rematch[GOMOKU_WHITE]
             /\ voted.blackToken # "" /\ voted.whiteToken # ""
       THEN [room |-> reset,
             out |-> pending \o <<_broadcast(socks, state(reset)),
                                  _broadcast(socks, votes(reset))>>]
       ELSE [room |-> voted, out |-> pending]
\* ---- rematch (lines 429-454)
GmRematch(room, c, role, socks) ==
  LET isPlayer == role \in {GOMOKU_BLACK, GOMOKU_WHITE}
      voted == [room EXCEPT !.rematch[role] = TRUE]
      pending == <<_broadcast(socks, [type |-> "rematch_pending"]),
                   _broadcast(socks, votes(voted))>>
      reset == GmNewGame(voted)
  IN IF ~isPlayer THEN [room |-> room, out |-> <<>>]
     ELSE IF ~room.gameOver THEN [room |-> room, out |-> <<>>]
     ELSE IF /\ voted.rematch[GOMOKU_BLACK] /\ voted.rematch[GOMOKU_WHITE]
             /\ voted.blackToken # "" /\ voted.whiteToken # ""
       THEN [room |-> reset,
             out |-> pending \o <<_broadcast(socks, state(reset)),
                                  _broadcast(socks, votes(reset))>>]
       ELSE [room |-> voted, out |-> pending]

\* role messages that repeat the role each socket was given when it opened
GmRoleMessages_AsOpened(room, socks) ==
  LET order == SetToSeq({w \in socks : ws[w].att.game = "gomoku"})
  IN [i \in 1..Len(order) |->
        send(order[i], [type |-> "role", you |-> ws[order[i]].you])]
\* the directed role messages after a swap (lines 492-498)
GmRoleMessages(room, socks) ==
  LET order == SetToSeq({w \in socks : ws[w].att.game = "gomoku"})
  IN [i \in 1..Len(order) |->
        send(order[i], [type |-> "role",
                        you |-> _roleFromToken(ws[order[i]].att.token, room)])]

\* a swap handler without the `!room.gameOver && room.moves.length > 0` return
GmSwap_MidGame(room, c, role, socks) ==
  LET isPlayer == role \in {GOMOKU_BLACK, GOMOKU_WHITE}
      voted == [room EXCEPT !.swap[role] = TRUE]
      pending == <<_broadcast(socks, [type |-> "swap_pending"]),
                   _broadcast(socks, votes(voted))>>
  IN IF ~isPlayer THEN [room |-> room, out |-> <<>>]
     ELSE [room |-> voted, out |-> pending]
\* ---- swap (lines 457-504)
GmSwap(room, c, role, socks) ==
  LET isPlayer == role \in {GOMOKU_BLACK, GOMOKU_WHITE}
      voted == [room EXCEPT !.swap[role] = TRUE]
      pending == <<_broadcast(socks, [type |-> "swap_pending"]),
                   _broadcast(socks, votes(voted))>>
      swapped == [voted EXCEPT !.blackToken = voted.whiteToken,
                               !.whiteToken = voted.blackToken,
                               !.blackLastSeen = voted.whiteLastSeen,
                               !.whiteLastSeen = voted.blackLastSeen]
      reset == GmNewGame(swapped)
  IN IF ~isPlayer THEN [room |-> room, out |-> <<>>]
     ELSE IF ~room.gameOver /\ Len(room.moves) > 0 THEN [room |-> room, out |-> <<>>]
     ELSE IF /\ voted.swap[GOMOKU_BLACK] /\ voted.swap[GOMOKU_WHITE]
             /\ voted.blackToken # "" /\ voted.whiteToken # ""
       THEN [room |-> reset,
             out |-> pending \o <<_broadcastSeats(socks, reset)>>
                       \o GmRoleMessages(reset, socks)
                       \o <<_broadcast(socks, state(reset)),
                            _broadcast(socks, votes(reset))>>]
       ELSE [room |-> voted, out |-> pending]

\* a leave handler that empties the seat but keeps its lastSeen
GmLeave_KeepsLastSeen(room, c, role, att, socks) ==
  LET isPlayer == role \in {GOMOKU_BLACK, GOMOKU_WHITE}
      b == IF role = GOMOKU_BLACK /\ att.token # "" /\ att.token = room.blackToken
             THEN [room EXCEPT !.blackToken = ""]
             ELSE room
      w == IF role = GOMOKU_WHITE /\ att.token # "" /\ att.token = b.whiteToken
             THEN [b EXCEPT !.whiteToken = ""]
             ELSE b
  IN IF ~isPlayer THEN [room |-> room, out |-> <<>>]
     ELSE [room |-> w,
           out |-> <<_broadcastSeats(socks, w), _broadcastPresence(socks)>>]
\* ---- gm_leave (lines 507-521)
GmLeave(room, c, role, att, socks) ==
  LET isPlayer == role \in {GOMOKU_BLACK, GOMOKU_WHITE}
      b == IF role = GOMOKU_BLACK /\ att.token # "" /\ att.token = room.blackToken
             THEN [room EXCEPT !.blackToken = "", !.blackLastSeen = 0]
             ELSE room
      w == IF role = GOMOKU_WHITE /\ att.token # "" /\ att.token = b.whiteToken
             THEN [b EXCEPT !.whiteToken = "", !.whiteLastSeen = 0]
             ELSE b
  IN IF ~isPlayer THEN [room |-> room, out |-> <<>>]
     ELSE [room |-> w,
           out |-> <<_broadcastSeats(socks, w), _broadcastPresence(socks)>>]

\* the messages a Gomoku client sends; "#text" is a frame JSON.parse throws on
GmMoveInputs ==
  {[type |-> "move", r |-> Num(0, rc[1]), c |-> Num(0, rc[2])] :
      rc \in {<<0, 0>>, <<0, 1>>, <<19, 0>>, <<0, -1>>}}
    \cup {[type |-> "move", r |-> Num(1, 0), c |-> Num(0, 1)],
          [type |-> "move", r |-> Undefined, c |-> Num(0, 0)]}

\* the cells the players of an endgame move to
EndgameInputs ==
  {[type |-> "move", r |-> Num(0, rc[1]), c |-> Num(0, rc[2])] :
      rc \in {<<9, 9>>, <<0, 1>>}}

GmMessages ==
  IF clients = "endgame" THEN EndgameInputs
  ELSE IF clients = "players"
    THEN GmMoveInputs \cup
         {[type |-> t] : t \in {"timeout", "rematch", "swap", "chat", "#text"}}
  ELSE IF clients = "voters"
    THEN {[type |-> t] : t \in {"timeout", "rematch", "swap", "gm_leave"}}
  ELSE {[type |-> t] : t \in {"rematch"}}

\* async webSocketMessage(ws, message)
GomokuRoom_webSocketMessage(c, msg) ==
  /\ kind = "gomoku"
  /\ ws[c].status = "open"
  /\ msg.type = "move"
       => Len(gm_room.moves) < (IF clients = "endgame" THEN MaxStones ELSE MaxMoves)
  /\ LET att == ws[c].att
         role == _roleFromToken(att.token, gm_room)
         socks == getWebSockets
         res == IF att.game # "gomoku" \/ msg.type = "#text"
                  THEN [room |-> gm_room, out |-> <<>>]
                ELSE IF msg.type = "move" THEN GmMove(gm_room, c, role, msg, now, socks)
                ELSE IF msg.type = "timeout" THEN GmTimeout(gm_room, c, role, socks)
                ELSE IF msg.type = "rematch" THEN GmRematch(gm_room, c, role, socks)
                ELSE IF msg.type = "swap" THEN GmSwap(gm_room, c, role, socks)
                ELSE IF msg.type = "gm_leave" THEN GmLeave(gm_room, c, role, att, socks)
                ELSE [room |-> gm_room, out |-> <<>>]
     IN /\ gm_room' = res.room
        /\ out' = res.out
  /\ UNCHANGED <<kind, clients, xq_room, ws, uuid, now>>

\* a close handler that gives the seat of the closing connection up
GomokuRoom_webSocketClose_Releases(c) ==
  /\ kind = "gomoku"
  /\ ws[c].status \in {"open", "closing"}
  /\ LET att == ws[c].att
         socks == getWebSockets \ {c}
         role == _roleFromToken(att.token, gm_room)
         room == IF role = GOMOKU_BLACK
                   THEN [gm_room EXCEPT !.blackToken = "", !.blackLastSeen = now]
                 ELSE IF role = GOMOKU_WHITE
                   THEN [gm_room EXCEPT !.whiteToken = "", !.whiteLastSeen = now]
                 ELSE gm_room
     IN /\ gm_room' = room
        /\ out' = <<_broadcastSeats(socks, room), _broadcastPresence(socks)>>
  /\ ws' = [ws EXCEPT ![c] = NoSocket]
  /\ UNCHANGED <<kind, clients, xq_room, uuid, now>>
\* async webSocketClose(ws, code, reason, wasClean): the close event of a
\* socket the client closed ("open") or the server closed ("closing")
GomokuRoom_webSocketClose(c) ==
  /\ kind = "gomoku"
  /\ ws[c].status \in {"open", "closing"}
  /\ LET att == ws[c].att
         socks == getWebSockets \ {c}
         role == _roleFromToken(att.token, gm_room)
         room == IF role = GOMOKU_BLACK THEN [gm_room EXCEPT !.blackLastSeen = now]
                 ELSE IF role = GOMOKU_WHITE THEN [gm_room EXCEPT !.whiteLastSeen = now]
                 ELSE gm_room
     IN IF att.game = "gomoku"
          THEN /\ gm_room' = room
               /\ out' = <<_broadcastSeats(socks, room), _broadcastPresence(socks)>>
          ELSE /\ gm_room' = gm_room
               /\ out' = <<_broadcastPresence(socks)>>
  /\ ws' = [ws EXCEPT ![c] = NoSocket]
  /\ UNCHANGED <<kind, clients, xq_room, uuid, now>>

\* ------------------------------------------------- Xiangqi rule engine
XQ_RED == 1
XQ_BLACK == 2
XQ_GRACE_MS == 3 * 60 * 1000

XQ_RED_COLOR == 1
XQ_BLACK_COLOR == -1
XQ_ROLES == [K |-> 1, A |-> 2, E |-> 3, H |-> 4, R |-> 5, C |-> 6, P |-> 7]
XQ_ROWS == 10
XQ_COLS == 9

\* the 0 of an empty square is written ""
XQ_INIT_MAP ==
  << <<"R", "H", "E", "A", "K", "A", "E", "H", "R">>,
     <<"", "", "", "", "", "", "", "", "">>,
     <<"", "C", "", "", "", "", "", "C", "">>,
     <<"P", "", "P", "", "P", "", "P", "", "P">>,
     <<"", "", "", "", "", "", "", "", "">>,
     <<"", "", "", "", "", "", "", "", "">>,
     <<"p", "", "p", "", "p", "", "p", "", "p">>,
     <<"", "c", "", "", "", "", "", "c", "">>,
     <<"", "", "", "", "", "", "", "", "">>,
     <<"r", "h", "e", "a", "k", "a", "e", "h", "r">> >>

XQ_CHAR_CFG ==
  [r |-> [t |-> XQ_ROLES.R, c |-> XQ_RED_COLOR],
   h |-> [t |-> XQ_ROLES.H, c |-> XQ_RED_COLOR],
   e |-> [t |-> XQ_ROLES.E, c |-> XQ_RED_COLOR],
   a |-> [t |-> XQ_ROLES.A, c |-> XQ_RED_COLOR],
   k |-> [t |-> XQ_ROLES.K, c |-> XQ_RED_COLOR],
   c |-> [t |-> XQ_ROLES.C, c |-> XQ_RED_COLOR],
   p |-> [t |-> XQ_ROLES.P, c |-> XQ_RED_COLOR],
   R |-> [t |-> XQ_ROLES.R, c |-> XQ_BLACK_COLOR],
   H |-> [t |-> XQ_ROLES.H, c |-> XQ_BLACK_COLOR],
   E |-> [t |-> XQ_ROLES.E, c |-> XQ_BLACK_COLOR],
   A |-> [t |-> XQ_ROLES.A, c |-> XQ_BLACK_COLOR],
   K |-> [t |-> XQ_ROLES.K, c |-> XQ_BLACK_COLOR],
   C |-> [t |-> XQ_ROLES.C, c |-> XQ_BLACK_COLOR],
   P |-> [t |-> XQ_ROLES.P, c |-> XQ_BLACK_COLOR]]

Squares == (0..(XQ_ROWS - 1)) \X (0..(XQ_COLS - 1))

\* board[r][c] === null
NoPiece == [t |-> 0, c |-> 0]

\* XqEngine.init(): the engine `new XqEngine()` returns
XqEngine_init ==
  [board |-> [sq \in Squares |->
                LET ch == XQ_INIT_MAP[sq[1] + 1][sq[2] + 1]
                IN IF ch # "" /\ ch \in DOMAIN XQ_CHAR_CFG THEN XQ_CHAR_CFG[ch] ELSE NoPiece],
   turn |-> XQ_RED_COLOR]

inBoard(r, c) == r >= 0 /\ r < XQ_ROWS /\ c >= 0 /\ c < XQ_COLS

\* a move object; its `capture` field is never read by the room and is left out
XqMove(r, c, tr, tc) == [from |-> [r |-> r, c |-> c], to |-> [r |-> tr, c |-> tc]]

\* const push = (tr, tc) => ... inside getRawMoves
push(board, r, c, color, tr, tc) ==
  IF inBoard(tr, tc) /\ (board[<<tr, tc>>] = NoPiece \/ board[<<tr, tc>>].c # color)
    THEN {XqMove(r, c, tr, tc)}
    ELSE {}

\* the loop `for (let i=1;;i++)` of the chariot in one direction
RECURSIVE rookRay(_, _, _, _, _, _, _)
rookRay(board, r, c, color, dr, dc, i) ==
  LET tr == r + dr * i
      tc == c + dc * i
  IN IF ~inBoard(tr, tc) THEN {}
     ELSE IF board[<<tr, tc>>] = NoPiece
       THEN {XqMove(r, c, tr, tc)} \cup rookRay(board, r, c, color, dr, dc, i + 1)
     ELSE IF board[<<tr, tc>>].c # color THEN {XqMove(r, c, tr, tc)}
     ELSE {}

\* a cannon that takes as the chariot does, with nothing in between
cannonRay_AsRook(board, r, c, color, dr, dc, i, platform) ==
  rookRay(board, r, c, color, dr, dc, i)
\* the loop of the cannon in one direction, with its `platform` flag
RECURSIVE cannonRay(_, _, _, _, _, _, _, _)
cannonRay(board, r, c, color, dr, dc, i, platform) ==
  LET tr == r + dr * i
      tc == c + dc * i
  IN IF ~inBoard(tr, tc) THEN {}
     ELSE IF ~platform
       THEN IF board[<<tr, tc>>] = NoPiece
              THEN {XqMove(r, c, tr, tc)}
                     \cup cannonRay(board, r, c, color, dr, dc, i + 1, FALSE)
              ELSE cannonRay(board, r, c, color, dr, dc, i + 1, TRUE)
     ELSE IF board[<<tr, tc>>] # NoPiece
       THEN IF board[<<tr, tc>>].c # color THEN {XqMove(r, c, tr, tc)} ELSE {}
     ELSE cannonRay(board, r, c, color, dr, dc, i + 1, TRUE)

Abs(x) == IF x < 0 THEN -x ELSE x
Sign(x) == IF x < 0 THEN -1 ELSE IF x > 0 THEN 1 ELSE 0

Orthogonal == {<<0, 1>>, <<0, -1>>, <<1, 0>>, <<-1, 0>>}
Diagonal == {<<1, 1>>, <<1, -1>>, <<-1, 1>>, <<-1, -1>>}

getRawMoves(board, r, c, type, color) ==
  IF type = XQ_ROLES.R
    THEN UNION {rookRay(board, r, c, color, d[1], d[2], 1) : d \in Orthogonal}
  ELSE IF type = XQ_ROLES.C
    THEN UNION {cannonRay(board, r, c, color, d[1], d[2], 1, FALSE) : d \in Orthogonal}
  ELSE IF type = XQ_ROLES.H
    THEN UNION {LET tr == r + d[1]
                    tc == c + d[2]
                    lr == r + (IF Abs(d[1]) = 2 THEN Sign(d[1]) ELSE 0)
                    lc == c + (IF Abs(d[2]) = 2 THEN Sign(d[2]) ELSE 0)
                IN IF inBoard(tr, tc) /\ board[<<lr, lc>>] = NoPiece
                     THEN push(board, r, c, color, tr, tc)
                     ELSE {} :
                d \in {<<2, 1>>, <<2, -1>>, <<-2, 1>>, <<-2, -1>>,
                       <<1, 2>>, <<1, -2>>, <<-1, 2>>, <<-1, -2>>}}
  ELSE IF type = XQ_ROLES.E
    THEN UNION {LET tr == r + 2 * d[1]
                    tc == c + 2 * d[2]
                    er == r + d[1]
                    ec == c + d[2]
                IN IF (color = XQ_RED_COLOR /\ tr < 5) \/ (color = XQ_BLACK_COLOR /\ tr > 4)
                     THEN {}
                   ELSE IF inBoard(tr, tc) /\ board[<<er, ec>>] = NoPiece
                     THEN push(board, r, c, color, tr, tc)
                     ELSE {} :
                d \in Diagonal}
  ELSE IF type = XQ_ROLES.A \/ type = XQ_ROLES.K
    THEN UNION {LET tr == r + d[1]
                    tc == c + d[2]
                IN IF tc < 3 \/ tc > 5 THEN {}
                   ELSE IF (color = XQ_RED_COLOR /\ tr < 7) \/ (color = XQ_BLACK_COLOR /\ tr > 2)
                     THEN {}
                   ELSE push(board, r, c, color, tr, tc) :
                d \in IF type = XQ_ROLES.A THEN Diagonal ELSE Orthogonal}
  ELSE IF type = XQ_ROLES.P
    THEN LET dir == IF color = XQ_RED_COLOR THEN -1 ELSE 1
         IN push(board, r, c, color, r + dir, c)
              \cup IF (color = XQ_RED_COLOR /\ r <= 4) \/ (color = XQ_BLACK_COLOR /\ r >= 5)
                     THEN push(board, r, c, color, r, c + 1)
                            \cup push(board, r, c, color, r, c - 1)
                     ELSE {}
  ELSE {}

Min(a, b) == IF a < b THEN a ELSE b
Max(a, b) == IF a < b THEN b ELSE a

\* "FLY", "NORMAL" or "null"
getCheckSource(board, color) ==
  LET kings == {sq \in Squares : board[sq].t = XQ_ROLES.K /\ board[sq].c = color}
      \* the scan keeps the last king it meets
      king == CHOOSE k \in kings :
                \A o \in kings : o[1] * XQ_COLS + o[2] <= k[1] * XQ_COLS + k[2]
      enemy == IF color = XQ_RED_COLOR THEN XQ_BLACK_COLOR ELSE XQ_RED_COLOR
      fly == \E sq \in Squares :
               /\ board[sq].t = XQ_ROLES.K /\ board[sq].c = enemy
               /\ sq[2] = king[2]
               /\ \A i \in (Min(sq[1], king[1]) + 1)..(Max(sq[1], king[1]) - 1) :
                    board[<<i, sq[2]>>] = NoPiece
      normal == \E sq \in Squares :
                  /\ board[sq] # NoPiece /\ board[sq].c = enemy
                  /\ \E m \in getRawMoves(board, sq[1], sq[2], board[sq].t, enemy) :
                       m.to.r = king[1] /\ m.to.c = king[2]
  IN IF kings = {} THEN "null"
     ELSE IF fly THEN "FLY"
     ELSE IF normal THEN "NORMAL"
     ELSE "null"

isChecked(board, color) == getCheckSource(board, color) # "null"

\* the board with the piece of move.from put on move.to
Moved(board, move) ==
  [board EXCEPT ![<<move.to.r, move.to.c>>] = board[<<move.from.r, move.from.c>>],
                ![<<move.from.r, move.from.c>>] = NoPiece]

\* a simulation that never sees the danger
checkSimulate_Never(board, color, move) == FALSE
checkSimulate(board, color, move) == isChecked(Moved(board, move), color)

\* this.board when checkSimulate returns: the move applied (two
\* assignments), then undone (two assignments, lines 1177-1178)
checkSimulate_board(board, move) ==
  LET from == <<move.from.r, move.from.c>>
      to == <<move.to.r, move.to.c>>
      old == board[to]
      b1 == [board EXCEPT ![to] = board[from]]
      b2 == [b1 EXCEPT ![from] = NoPiece]
      b3 == [b2 EXCEPT ![from] = b2[to]]
  IN [b3 EXCEPT ![to] = old]

getMoves(board, color) ==
  UNION {{m \in getRawMoves(board, sq[1], sq[2], board[sq].t, color) :
             ~checkSimulate(board, color, m)} :
         sq \in {q \in Squares : board[q] # NoPiece /\ board[q].c = color}}

\* the legal move from (fr,fc) to (tr,tc), as a set: empty when find gives null
findLegalMove(game, fr, fc, tr, tc) ==
  {m \in getMoves(game.board, game.turn) :
     m.from.r = fr /\ m.from.c = fc /\ m.to.r = tr /\ m.to.c = tc}

applyMove(game, move) ==
  [board |-> Moved(game.board, move),
   turn |-> IF game.turn = XQ_RED_COLOR THEN XQ_BLACK_COLOR ELSE XQ_RED_COLOR]

\* if (legal) e.applyMove(legal): a move the engine does not find is skipped
replayMove(e, legal) ==
  IF legal = {} THEN e ELSE applyMove(e, CHOOSE l \in legal : TRUE)

RECURSIVE replay(_, _, _)
replay(e, moves, i) ==
  IF i > Len(moves) THEN e
  ELSE replay(replayMove(e, findLegalMove(e, moves[i].from.r, moves[i].from.c,
                                          moves[i].to.r, moves[i].to.c)),
              moves, i + 1)

buildXqEngineFromMoves(moves) == replay(XqEngine_init, moves, 1)

\* --------------------------------------------- RelayRoom, game = "xq"
JUE_SHA == "checkmate"                 \* reason: no legal move, in check
KUN_BI == "stalemate"                  \* reason: no legal move, not in check
REJ_FROM == "from out of bounds"
REJ_TO == "to out of bounds"
REJ_DESYNC == "out of sync (turn mismatch)"
REJ_ILLEGAL == "illegal move"

_xqDefaultRoom ==
  [redToken |-> "", blackToken |-> "",
   redLastSeen |-> 0, blackLastSeen |-> 0,
   moves |-> <<>>, current |-> XQ_RED,
   gameOver |-> FALSE, winner |-> 0, reason |-> "",
   rematch |-> NoVotes, swap |-> NoVotes]

_xqCountOnlineByRole(socks) ==
  [role \in {XQ_RED, XQ_BLACK} |->
     Cardinality({w \in socks : ws[w].att.game = "xq" /\ ws[w].att.role = role})]

_broadcastXqSeats(socks, room) ==
  _broadcast(socks, [type |-> "xq_seats",
                     seats |-> [red |-> room.redToken # "",
                                black |-> room.blackToken # ""]])

\* the `else` of step 2 (lines 706-710): the presented token is a seat's token
XqResume(room, youRole, token, t, n) ==
  [you |-> youRole, token |-> token, n |-> n,
   room |-> IF youRole = XQ_RED THEN [room EXCEPT !.redLastSeen = t]
            ELSE [room EXCEPT !.blackLastSeen = t]]

\* seat allocation of _fetchXQ (lines 673-716)
XqAllocate(room, tokenParam, want, onlineCount, t, n) ==
  LET token == tokenParam
      youRole == IF token # "" /\ token = room.redToken THEN XQ_RED
                 ELSE IF token # "" /\ token = room.blackToken THEN XQ_BLACK
                 ELSE 0
      canStealRed == canSteal(room.redToken, onlineCount[XQ_RED], t,
                              room.redLastSeen, XQ_GRACE_MS)
      canStealBlack == canSteal(room.blackToken, onlineCount[XQ_BLACK], t,
                                room.blackLastSeen, XQ_GRACE_MS)
      wantRed == want \in {"red", "r", "1"}
      wantBlack == want \in {"black", "b", "2"}
      wantSpectate == want \in {"spectate", "watch", "0"}
      wantAuto == want \in {"auto", ""}
      takeRed == /\ ~wantSpectate /\ (wantRed \/ wantAuto)
                 /\ (room.redToken = "" \/ canStealRed)
      takeBlack == /\ ~takeRed
                   /\ ~wantSpectate /\ (wantBlack \/ wantAuto)
                   /\ (room.blackToken = "" \/ canStealBlack)
      a == IF youRole = 0
             THEN IF takeRed
                    THEN [you |-> XQ_RED, token |-> randomUUID(n), n |-> n + 1,
                          room |-> [room EXCEPT !.redToken = randomUUID(n),
                                                !.redLastSeen = t]]
                  ELSE IF takeBlack
                    THEN [you |-> XQ_BLACK, token |-> randomUUID(n), n |-> n + 1,
                          room |-> [room EXCEPT !.blackToken = randomUUID(n),
                                                !.blackLastSeen = t]]
                  ELSE [you |-> 0, token |-> token, n |-> n, room |-> room]
             ELSE XqResume(room, youRole, token, t, n)
  IN IF a.you \in {XQ_RED, XQ_BLACK} /\ a.token = ""
       THEN [you |-> a.you, token |-> randomUUID(a.n), n |-> a.n + 1,
             room |-> IF a.you = XQ_RED
                        THEN [a.room EXCEPT !.redToken = randomUUID(a.n)]
                        ELSE [a.room EXCEPT !.blackToken = randomUUID(a.n)]]
       ELSE a

XqInit(you, token, room) ==
  [type |-> "init", you |-> you,
   token |-> IF you \in {XQ_RED, XQ_BLACK} THEN token ELSE "",
   moves |-> room.moves, current |-> room.current, gameOver |-> room.gameOver,
   winner |-> room.winner, reason |-> room.reason,
   seats |-> [red |-> room.redToken # "", black |-> room.blackToken # ""],
   votes |-> [rematch |-> room.rematch, swap |-> room.swap]]

\* the sockets _fetchXQ closes with (1000, "reconnect") (lines 723-732)
XqKickSameToken(server, token, socks) ==
  IF token = "" THEN {}
  ELSE {w \in socks \ {server} :
          /\ ws[w].att.game = "xq"
          /\ ws[w].att.token # ""
          /\ ws[w].att.token = token}

\* async _fetchXQ(request, url): a connection opens
_fetchXQ(c, tokenParam, want) ==
  /\ kind = "xq"
  /\ ws[c].status = "free"
  /\ \A b \in 1..(c - 1) : ws[b].status # "free"
  /\ uuid < MaxUuid
  /\ LET admitted == getWebSockets \cup {c}
         onlineCount == _xqCountOnlineByRole(getWebSockets)
         a == XqAllocate(xq_room, tokenParam, want, onlineCount, now, uuid)
         kicked == XqKickSameToken(c, a.token, admitted)
         socks == admitted \ kicked
     IN /\ xq_room' = a.room
        /\ uuid' = a.n
        /\ ws' = [w \in Conn |->
                    IF w = c
                      THEN [status |-> "open",
                            att |-> [game |-> "xq", role |-> a.you, token |-> a.token],
                            closed |-> "", you |-> a.you]
                    ELSE IF w \in kicked
                      THEN [ws[w] EXCEPT !.status = "closing", !.closed = "reconnect"]
                    ELSE ws[w]]
        /\ out' = <<send(c, XqInit(a.you, a.token, a.room)),
                    _broadcastXqSeats(socks, a.room),
                    _broadcastPresence(socks)>>
  /\ UNCHANGED <<kind, clients, gm_room, now>>

xq_votes(room) ==
  [type |-> "xq_votes", votes |-> [rematch |-> room.rematch, swap |-> room.swap]]

\* a reject that resends the init on every failure
XqReject_AlwaysSyncs(room, c, att, role, reason, sync) ==
  [room |-> room,
   out |-> <<send(c, [type |-> "reject", reason |-> reason]),
             send(c, XqInit(role, IF att.token # "" /\ role \in {XQ_RED, XQ_BLACK}
                                    THEN att.token ELSE "", room))>>,
   close |-> {}]
\* reject(reason, sync): a reject, and with sync the full init, to the sender
XqReject(room, c, att, role, reason, sync) ==
  LET isPlayer == role \in {XQ_RED, XQ_BLACK}
      rej == send(c, [type |-> "reject", reason |-> reason])
      resync == send(c, XqInit(role, IF att.token # "" /\ isPlayer THEN att.token ELSE "", room))
  IN [room |-> room,
      out |-> IF sync THEN <<rej, resync>> ELSE <<rej>>,
      close |-> {}]

\* a terminal detection that never sees the check
XqOutcome_CheckUnseen(after, nextColor, nextMoves) ==
  [verdict |-> "legal", over |-> nextMoves = {}, inCheck |-> FALSE]
\* lines 881-897: the opponent's answer to the move just applied
XqOutcome(after, nextColor, nextMoves) ==
  [verdict |-> "legal",
   over |-> nextMoves = {},
   inCheck |-> IF nextMoves = {} THEN isChecked(after.board, nextColor) ELSE FALSE]

XqApplied(after, nextColor) ==
  XqOutcome(after, nextColor, getMoves(after.board, nextColor))

\* lines 872-878: the turn check and the legality of the move
XqVerdict(game, color, legal) ==
  IF game.turn # color THEN [verdict |-> "desync"]
  ELSE IF legal = {} THEN [verdict |-> "illegal"]
  ELSE XqApplied(applyMove(game, CHOOSE l \in legal : TRUE), -color)

XqFind(game, color, fr, fc, tr, tc) ==
  XqVerdict(game, color, findLegalMove(game, fr, fc, tr, tc))

\* what the engine says of the move (fr,fc)->(tr,tc) of `role` after `moves`
XqJudge(moves, role, fr, fc, tr, tc) ==
  XqFind(buildXqEngineFromMoves(moves), IF role = XQ_RED THEN 1 ELSE -1,
         fr, fc, tr, tc)

\* the xq_move messages the clients send: from/to as JSON values
XqPos(r, c) == [r |-> Num(0, r), c |-> Num(0, c)]

XqMoveInputs ==
  {[type |-> "xq_move", from |-> XqPos(7, 1), to |-> XqPos(7, 4)],
   [type |-> "xq_move", from |-> XqPos(6, 4), to |-> XqPos(5, 4)],
   [type |-> "xq_move", from |-> XqPos(0, 1), to |-> XqPos(2, 2)],
   [type |-> "xq_move", from |-> XqPos(9, 4), to |-> XqPos(7, 4)],
   [type |-> "xq_move", from |-> XqPos(10, 0), to |-> XqPos(9, 0)],
   [type |-> "xq_move", from |-> XqPos(9, 0), to |-> XqPos(8, 9)],
   [type |-> "xq_move", from |-> Undefined, to |-> XqPos(1, 0)],
   [type |-> "xq_move", from |-> [r |-> Num(1, 7), c |-> Num(0, 1)], to |-> XqPos(7, 4)]}

\* msg.from || {} and from.r | 0
XqCoord(p) ==
  IF p = Undefined THEN [r |-> 0, c |-> 0]
  ELSE [r |-> ToInt32(p.r), c |-> ToInt32(p.c)]

\* the engine's verdicts on the lines of play the inputs can produce, computed
\* once: XqJudge on every position reached by at most MaxMoves - 1 input moves
XqCells ==
  {<<XqCoord(m.from), XqCoord(m.to)>> : m \in XqMoveInputs}

XqEntry(moves, role, cell) ==
  [moves |-> moves, role |-> role, cell |-> cell,
   res |-> XqJudge(moves, role, cell[1].r, cell[1].c, cell[2].r, cell[2].c)]

RECURSIVE XqLines(_)
XqLines(n) ==
  IF n = 0 THEN {<<>>}
  ELSE LET prev == XqLines(n - 1)
       IN prev \cup
          {Append(l, [from |-> cell[1], to |-> cell[2]]) :
             <<l, cell>> \in
               {<<l, cell>> \in prev \X {x \in XqCells : inBoard(x[1].r, x[1].c) /\ inBoard(x[2].r, x[2].c)} :
                  /\ Len(l) = n - 1
                  /\ XqJudge(l, IF Len(l) % 2 = 0 THEN XQ_RED ELSE XQ_BLACK,
                             cell[1].r, cell[1].c, cell[2].r, cell[2].c).verdict = "legal"}}

XqBook ==
  {XqEntry(l, IF Len(l) % 2 = 0 THEN XQ_RED ELSE XQ_BLACK, cell) :
     <<l, cell>> \in XqLines(MaxMoves - 1) \X
                     {x \in XqCells : inBoard(x[1].r, x[1].c) /\ inBoard(x[2].r, x[2].c)}}

XqStrip(moves) ==
  [i \in 1..Len(moves) |-> [from |-> moves[i].from, to |-> moves[i].to]]

\* the verdict, looked up; computed where the table has no entry
XqLookup(hit, moves, role, fr, fc, tr, tc) ==
  IF hit # {} THEN (CHOOSE e \in hit : TRUE).res
  ELSE XqJudge(moves, role, fr, fc, tr, tc)

XqJudged(moves, role, from, to) ==
  XqLookup({e \in XqBook : e.moves = XqStrip(moves) /\ e.role = role
                           /\ e.cell = <<from, to>>},
           moves, role, from.r, from.c, to.r, to.c)

XqOther(role) == IF role = XQ_RED THEN XQ_BLACK ELSE XQ_RED

\* an xq_move handler that stores the move the wrong way round
XqPlay_StoresReversed(room, c, att, role, from, to, res, t, socks) ==
  LET isPlayer == role \in {XQ_RED, XQ_BLACK}
      nextRole == XqOther(role)
      room2 == [room EXCEPT !.moves = Append(@, [from |-> to, to |-> from, p |-> role]),
                            !.current = nextRole,
                            !.gameOver = res.over,
                            !.winner = IF res.over THEN role ELSE @,
                            !.rematch = NoVotes,
                            !.swap = NoVotes]
  IN IF ~isPlayer THEN XqReject(room, c, att, role, REJ_SPECTATOR, FALSE)
     ELSE IF room.gameOver THEN XqReject(room, c, att, role, REJ_OVER, FALSE)
     ELSE IF room.current # role THEN XqReject(room, c, att, role, REJ_TURN, FALSE)
     ELSE IF ~inBoard(from.r, from.c) THEN XqReject(room, c, att, role, REJ_FROM, FALSE)
     ELSE IF ~inBoard(to.r, to.c) THEN XqReject(room, c, att, role, REJ_TO, FALSE)
     ELSE IF res.verdict = "desync" THEN XqReject(room, c, att, role, REJ_DESYNC, TRUE)
     ELSE IF res.verdict = "illegal" THEN XqReject(room, c, att, role, REJ_ILLEGAL, TRUE)
     ELSE [room |-> room2,
           out |-> <<_broadcast(socks, [type |-> "xq_move", from |-> from, to |-> to,
                                        p |-> role, next |-> nextRole])>>,
           close |-> {}]
\* msg.type === "xq_move"
XqPlay(room, c, att, role, from, to, res, t, socks) ==
  LET isPlayer == role \in {XQ_RED, XQ_BLACK}
      nextRole == XqOther(role)
      reason == IF res.over THEN (IF res.inCheck THEN JUE_SHA ELSE KUN_BI) ELSE ""
      seen == [room EXCEPT !.moves = Append(@, [from |-> from, to |-> to, p |-> role]),
                           !.current = nextRole,
                           !.gameOver = res.over,
                           !.winner = IF res.over THEN role ELSE @,
                           !.reason = reason,
                           !.rematch = NoVotes,
                           !.swap = NoVotes]
      room2 == IF role = XQ_RED THEN [seen EXCEPT !.redLastSeen = t]
               ELSE [seen EXCEPT !.blackLastSeen = t]
      moved == IF res.over
                 THEN [type |-> "xq_move", from |-> from, to |-> to, p |-> role,
                       next |-> nextRole, win |-> role, reason |-> reason]
                 ELSE [type |-> "xq_move", from |-> from, to |-> to, p |-> role,
                       next |-> nextRole]
  IN IF ~isPlayer THEN XqReject(room, c, att, role, REJ_SPECTATOR, FALSE)
     ELSE IF room.gameOver THEN XqReject(room, c, att, role, REJ_OVER, FALSE)
     ELSE IF room.current # role THEN XqReject(room, c, att, role, REJ_TURN, FALSE)
     ELSE IF ~inBoard(from.r, from.c) THEN XqReject(room, c, att, role, REJ_FROM, FALSE)
     ELSE IF ~inBoard(to.r, to.c) THEN XqReject(room, c, att, role, REJ_TO, FALSE)
     ELSE IF res.verdict = "desync" THEN XqReject(room, c, att, role, REJ_DESYNC, TRUE)
     ELSE IF res.verdict = "illegal" THEN XqReject(room, c, att, role, REJ_ILLEGAL, TRUE)
     ELSE [room |-> room2,
           out |-> IF res.over
                     THEN <<_broadcast(socks, moved),
                            _broadcast(socks, [type |-> "xq_over", winner |-> role,
                                               reason |-> reason])>>
                     ELSE <<_broadcast(socks, moved)>>,
           close |-> {}]

\* msg.type === "xq_timeout"
XqTimeout(room, c, att, role, socks) ==
  LET isPlayer == role \in {XQ_RED, XQ_BLACK}
      room2 == [room EXCEPT !.gameOver = TRUE, !.winner = XqOther(role),
                            !.reason = CHAO_SHI]
  IN IF ~isPlayer THEN XqReject(room, c, att, role, REJ_SPECTATOR, FALSE)
     ELSE IF room.gameOver THEN XqReject(room, c, att, role, REJ_OVER, FALSE)
     ELSE IF room.current # role THEN XqReject(room, c, att, role, REJ_TURN, FALSE)
     ELSE [room |-> room2,
           out |-> <<_broadcast(socks, [type |-> "xq_over", winner |-> room2.winner,
                                        reason |-> room2.reason])>>,
           close |-> {}]

\* a new game that remembers who won the last one
XqNewGame_KeepsWinner(room) ==
  [room EXCEPT !.moves = <<>>, !.current = XQ_RED, !.gameOver = FALSE,
               !.reason = "",
               !.rematch = NoVotes, !.swap = NoVotes]

XqNewGame(room) ==
  [room EXCEPT !.moves = <<>>, !.current = XQ_RED, !.gameOver = FALSE,
               !.winner = 0, !.reason = "",
               !.rematch = NoVotes, !.swap = NoVotes]

\* msg.type === "xq_rematch"
XqRematch(room, c, role, socks) ==
  LET isPlayer == role \in {XQ_RED, XQ_BLACK}
      voted == [room EXCEPT !.rematch[role] = TRUE]
      agreed == /\ voted.rematch[XQ_RED] /\ voted.rematch[XQ_BLACK]
                /\ voted.redToken # "" /\ voted.blackToken # ""
      fresh == XqNewGame(voted)
  IN IF ~isPlayer \/ ~room.gameOver THEN [room |-> room, out |-> <<>>, close |-> {}]
     ELSE IF agreed
       THEN [room |-> fresh,
             out |-> <<_broadcast(socks, xq_votes(voted)),
                       _broadcast(socks, [type |-> "xq_reset", reason |-> "rematch",
                                          current |-> fresh.current, moves |-> <<>>]),
                       _broadcast(socks, xq_votes(fresh))>>,
             close |-> {}]
     ELSE [room |-> voted, out |-> <<_broadcast(socks, xq_votes(voted))>>, close |-> {}]

\* msg.type === "xq_swap"
XqSwap(room, c, role, socks) ==
  LET isPlayer == role \in {XQ_RED, XQ_BLACK}
      voted == [room EXCEPT !.swap[role] = TRUE]
      agreed == /\ voted.swap[XQ_RED] /\ voted.swap[XQ_BLACK]
                /\ voted.redToken # "" /\ voted.blackToken # ""
      fresh == XqNewGame([voted EXCEPT !.redToken = voted.blackToken,
                                       !.blackToken = voted.redToken,
                                       !.redLastSeen = voted.blackLastSeen,
                                       !.blackLastSeen = voted.redLastSeen])
  IN IF ~isPlayer \/ (~room.gameOver /\ Len(room.moves) > 0)
       THEN [room |-> room, out |-> <<>>, close |-> {}]
     ELSE IF agreed
       THEN [room |-> fresh,
             out |-> <<_broadcast(socks, xq_votes(voted)),
                       _broadcastXqSeats(socks, fresh),
                       _broadcast(socks, [type |-> "xq_reset", reason |-> "swap",
                                          current |-> fresh.current, moves |-> <<>>])>>,
             close |-> socks]
     ELSE [room |-> voted, out |-> <<_broadcast(socks, xq_votes(voted))>>, close |-> {}]

\* msg.type === "xq_leave"
XqLeave(room, c, att, role, socks) ==
  LET isPlayer == role \in {XQ_RED, XQ_BLACK}
      room2 == IF role = XQ_RED /\ att.token # "" /\ att.token = room.redToken
                 THEN [room EXCEPT !.redToken = "", !.redLastSeen = 0]
               ELSE IF role = XQ_BLACK /\ att.token # "" /\ att.token = room.blackToken
                 THEN [room EXCEPT !.blackToken = "", !.blackLastSeen = 0]
               ELSE room
  IN IF ~isPlayer THEN [room |-> room, out |-> <<>>, close |-> {}]
     ELSE [room |-> room2,
           out |-> <<_broadcastXqSeats(socks, room2), _broadcastPresence(socks)>>,
           close |-> {}]

\* async _handleXqMessage(ws, att, msg): the role is the attachment's
_handleXqMessage(room, c, att, msg, t, socks) ==
  LET role == att.role
  IN IF msg.type = "xq_move"
       THEN XqPlay(room, c, att, role, XqCoord(msg.from), XqCoord(msg.to),
                   XqJudged(room.moves, role, XqCoord(msg.from), XqCoord(msg.to)),
                   t, socks)
     ELSE IF msg.type = "xq_timeout" THEN XqTimeout(room, c, att, role, socks)
     ELSE IF msg.type = "xq_rematch" THEN XqRematch(room, c, role, socks)
     ELSE IF msg.type = "xq_swap" THEN XqSwap(room, c, role, socks)
     ELSE IF msg.type = "xq_leave" THEN XqLeave(room, c, att, role, socks)
     ELSE [room |-> room, out |-> <<>>, close |-> {}]

\* a game red wins on its fourth move: both cannons to the central file,
\* one of them taking the central pawn, black pushing edge pawns meanwhile
XqPly(fr, fc, tr, tc, p) ==
  [from |-> [r |-> fr, c |-> fc], to |-> [r |-> tr, c |-> tc], p |-> p]

MateLine ==
  <<XqPly(7, 1, 7, 4, XQ_RED), XqPly(3, 0, 4, 0, XQ_BLACK),
    XqPly(7, 4, 3, 4, XQ_RED), XqPly(4, 0, 5, 0, XQ_BLACK),
    XqPly(7, 7, 4, 7, XQ_RED), XqPly(3, 8, 4, 8, XQ_BLACK),
    XqPly(4, 7, 4, 4, XQ_RED)>>

\* what the players of that game send from its fifth ply on
MateInputs ==
  {[type |-> "xq_move", from |-> XqPos(MateLine[i].from.r, MateLine[i].from.c),
                        to |-> XqPos(MateLine[i].to.r, MateLine[i].to.c)] :
      i \in 5..7}
    \cup {[type |-> "xq_move", from |-> XqPos(9, 4), to |-> XqPos(7, 4)]}
    \cup {[type |-> t] : t \in {"xq_timeout", "xq_rematch", "xq_swap"}}

XqMessages ==
  IF clients = "mate" THEN MateInputs
  ELSE IF clients = "players"
    THEN XqMoveInputs \cup {[type |-> t] : t \in {"xq_timeout", "xq_rematch", "xq_swap", "chat", "#text"}}
  ELSE IF clients = "voters"
    THEN {[type |-> t] : t \in {"xq_timeout", "xq_rematch", "xq_swap", "xq_leave"}}
  ELSE IF clients = "leavers" THEN {[type |-> "xq_leave"]}
  ELSE IF clients = "callers"
    THEN {[type |-> t] : t \in {"xq_timeout", "xq_rematch", "xq_swap", "xq_leave"}}
  ELSE {[type |-> "xq_rematch"]}

\* async webSocketMessage(ws, message) of RelayRoom, on a game = "xq" socket
RelayRoom_webSocketMessage(c, msg) ==
  /\ kind = "xq"
  /\ ws[c].status = "open"
  /\ msg.type = "xq_move"
       => Len(xq_room.moves) < (IF clients = "mate" THEN MaxPlies ELSE MaxMoves)
  /\ LET att == ws[c].att
         h == IF msg.type = "#text"
                THEN [room |-> xq_room, out |-> <<>>, close |-> {}]
                ELSE _handleXqMessage(xq_room, c, att, msg, now, getWebSockets)
     IN /\ xq_room' = h.room
        /\ out' = h.out
        /\ ws' = [w \in Conn |->
                    IF w \in h.close
                      THEN [ws[w] EXCEPT !.status = "closing", !.closed = "swap"]
                      ELSE ws[w]]
  /\ UNCHANGED <<kind, clients, gm_room, uuid, now>>

\* async webSocketClose(ws, code, reason, wasClean) of RelayRoom
RelayRoom_webSocketClose(c) ==
  /\ kind = "xq"
  /\ ws[c].status \in {"open", "closing"}
  /\ LET att == ws[c].att
         socks == getWebSockets \ {c}
         room2 == IF att.role = XQ_RED THEN [xq_room EXCEPT !.redLastSeen = now]
                  ELSE IF att.role = XQ_BLACK THEN [xq_room EXCEPT !.blackLastSeen = now]
                  ELSE xq_room
     IN /\ xq_room' = room2
        /\ out' = <<_broadcastXqSeats(socks, room2), _broadcastPresence(socks)>>
        /\ ws' = [ws EXCEPT ![c] = NoSocket]
  /\ UNCHANGED <<kind, clients, gm_room, uuid, now>>

\* the clock: time passes between two events of the room.  It advances by
\* a grace period, then by one millisecond, then by a grace period again
\* ..., so that an event at Now0 + k * grace + (k - 1), exactly one grace
\* period after the last event before it, is followed by one a millisecond
\* later, past the grace period
Pace ==
  IF (now - Now0) \div GM_GRACE_MS = (now - Now0) % GM_GRACE_MS
    THEN GM_GRACE_MS
    ELSE 1

Tick ==
  /\ clients \in {"lobby", "leavers"}
  /\ now + Pace <= MaxNow
  /\ now' = now + Pace
  /\ out' = <<>>
  /\ UNCHANGED <<kind, clients, gm_room, xq_room, ws, uuid>>

\* what a client may present as ?token=: nothing, a token the room minted
\* earlier, or a string the room never minted
TokenParams ==
  IF clients # "lobby" THEN {""}
  ELSE {"", "x"} \cup {randomUUID(i) : i \in 0..(uuid - 1)}

GmWants ==
  IF clients = "players" THEN {"auto", "spectate"}
  ELSE IF clients = "voters" THEN {"auto"}
  ELSE {"auto", "black", "w", "spectate"}

XqWants ==
  IF clients = "players" THEN {"auto", "spectate"}
  ELSE IF clients = "voters" THEN {"auto"}
  ELSE {"auto", "red", "b", "spectate"}

Init ==
  /\ kind \in {"gomoku", "xq"}
  /\ clients \in {"players", "voters", "lobby"}
  /\ gm_room = _defaultRoom
  /\ xq_room = _xqDefaultRoom
  /\ ws = [c \in Conn |-> NoSocket]
  /\ uuid = 0
  /\ now = Now0
  /\ out = <<>>

Next ==
  \/ \E c \in Conn, tokenParam \in TokenParams, want \in GmWants :
       GomokuRoom_fetch(c, tokenParam, want)
  \/ \E c \in Conn, msg \in GmMessages : GomokuRoom_webSocketMessage(c, msg)
  \/ \E c \in Conn : GomokuRoom_webSocketClose(c)
  \/ \E c \in Conn, tokenParam \in TokenParams, want \in XqWants :
       _fetchXQ(c, tokenParam, want)
  \/ \E c \in Conn, msg \in XqMessages : RelayRoom_webSocketMessage(c, msg)
  \/ \E c \in Conn : RelayRoom_webSocketClose(c)
  \/ Tick

Spec == Init /\ [][Next]_vars

\* a Xiangqi room whose players give their seats up (xq_leave) and stay
\* connected while time passes: what an open finds when the holder of a
\* seat's token and the connections that were given the seat differ
InitLeave ==
  /\ kind = "xq"
  /\ clients = "leavers"
  /\ gm_room = _defaultRoom
  /\ xq_room = _xqDefaultRoom
  /\ ws = [c \in Conn |-> NoSocket]
  /\ uuid = 0
  /\ now = Now0
  /\ out = <<>>

NextLeave ==
  \/ \E c \in Conn, tokenParam \in TokenParams, want \in XqWants :
       _fetchXQ(c, tokenParam, want)
  \/ \E c \in Conn, msg \in XqMessages : RelayRoom_webSocketMessage(c, msg)
  \/ \E c \in Conn : RelayRoom_webSocketClose(c)
  \/ Tick

SpecLeave == InitLeave /\ [][NextLeave]_vars

\* --------------------------------- GomokuRoom, the connection-order variant
\* (src/unnamed/part_001; the fetch of src/unnamed/part_000 and of the first
\* GomokuRoom of src/src/index.js allocates the colours in the same way).
\* Each fetch keeps the room it loaded in the closure of its listeners:
\* ws[c].room is that object and gm_room is what storage holds under "room",
\* the default room standing for a key that was never put.
\* The socket is taken to be open after fetch and its listeners to run, both
\* server.accept() and state.acceptWebSocket(server) having been called.
BLACK == 1
WHITE == 2

\* the `|| { order: [], players: {}, ... }` of fetch: players maps a connId
\* to its colour and is written as a set of [id, color] records
LegacyDefaultRoom ==
  [order |-> <<>>, players |-> {}, moves |-> <<>>, current |-> BLACK,
   gameOver |-> FALSE, swapVotes |-> {}, rematchVotes |-> {}]

\* room.players[id]?.color || 0
LegacyColor(room, id) ==
  IF \E pl \in room.players : pl.id = id
    THEN (CHOOSE pl \in room.players : pl.id = id).color
    ELSE 0

\* _broadcastRoles(room): to each socket the colour `room` knows for it
_broadcastRoles(socks, room) ==
  [i \in 1..Cardinality(socks) |->
     send(SetToSeq(socks)[i],
          [type |-> "role",
           you |-> LegacyColor(room, ws'[SetToSeq(socks)[i]].att.connId)])]

\* checkWin of src/unnamed/part_001: the backward scan steps the column by
\* dr (`${r-dr*k}#${c-dr*k}`)
checkWin_part001(moves, r, c, p) ==
  LET s == {<<moves[i].r, moves[i].c>> : i \in {j \in 1..Len(moves) : moves[j].p = p}}
      dirs == {<<1, 0>>, <<0, 1>>, <<1, 1>>, <<1, -1>>}
  IN \E d \in dirs :
       1 + Run(s, r, c, d[1], d[2], 1) + Run(s, r, c, -d[1], -d[1], 1) >= 5

\* async fetch(request) of GomokuRoom (part_001 lines 41-88): nothing is put
GomokuRoom_fetch_part001(c) ==
  /\ kind = "legacy"
  /\ ws[c].status = "free"
  /\ \A b \in 1..(c - 1) : ws[b].status # "free"
  /\ uuid < MaxUuid
  /\ LET connId == randomUUID(uuid)
         color == IF Len(gm_room.order) = 0 THEN BLACK
                  ELSE IF Len(gm_room.order) = 1 THEN WHITE
                  ELSE 0
         room == [gm_room EXCEPT !.players = @ \cup {[id |-> connId, color |-> color]},
                                 !.order = Append(@, connId)]
         socks == getWebSockets \cup {c}
     IN /\ ws' = [ws EXCEPT ![c] = [status |-> "open", att |-> [connId |-> connId],
                                    closed |-> "", you |-> color, room |-> room]]
        /\ out' = <<send(c, [type |-> "init", you |-> color, moves |-> room.moves,
                             current |-> room.current, gameOver |-> room.gameOver]),
                    _broadcastPresence(socks)>> \o _broadcastRoles(socks, room)
        /\ uuid' = uuid + 1
  /\ UNCHANGED <<kind, clients, gm_room, xq_room, now>>

\* the moves the clients of this variant send
LegacyMoves ==
  {[type |-> "move", r |-> Num(0, rc[1]), c |-> Num(0, rc[2])] :
      rc \in {<<0, 0>>, <<0, 1>>, <<5, 5>>}}

\* the "message" listener of part_001 (lines 90-200) on a move (175-199)
GomokuRoom_onMessage_part001(c, msg) ==
  /\ kind = "legacy"
  /\ ws[c].status = "open"
  /\ Len(ws[c].room.moves) < MaxMoves
  /\ LET room == ws[c].room
         color == LegacyColor(room, ws[c].att.connId)
         r == ToInt32(msg.r)
         cc == ToInt32(msg.c)
         pushed == [room EXCEPT !.moves = Append(@, [r |-> r, c |-> cc, p |-> color])]
         won == checkWin_part001(pushed.moves, r, cc, color)
         room2 == IF won THEN [pushed EXCEPT !.gameOver = TRUE]
                  ELSE [pushed EXCEPT !.current = IF @ = BLACK THEN WHITE ELSE BLACK]
     IN IF \/ msg.type # "move" \/ room.gameOver
           \/ color \notin {BLACK, WHITE} \/ color # room.current
           \/ r < 0 \/ r >= SIZE \/ cc < 0 \/ cc >= SIZE
           \/ isOccupied(room.moves, r, cc)
          THEN /\ out' = <<>>
               /\ UNCHANGED <<gm_room, ws>>
          ELSE /\ out' = <<_broadcast(getWebSockets,
                                      IF won
                                        THEN [type |-> "move", r |-> r, c |-> cc,
                                              p |-> color, win |-> color]
                                        ELSE [type |-> "move", r |-> r, c |-> cc,
                                              p |-> color, next |-> room2.current])>>
               /\ gm_room' = room2
               /\ ws' = [ws EXCEPT ![c].room = room2]
  /\ UNCHANGED <<kind, clients, xq_room, uuid, now>>

\* the "close" listener of part_001 (lines 202-215)
GomokuRoom_onClose_part001(c) ==
  /\ kind = "legacy"
  /\ ws[c].status = "open"
  /\ LET connId == ws[c].att.connId
         room == ws[c].room
         order == SelectSeq(room.order, LAMBDA x : x # connId)
         room2 == [room EXCEPT !.players = {pl \in @ : pl.id # connId},
                               !.order = order,
                               !.swapVotes = @ \ {connId},
                               !.rematchVotes = @ \ {connId}]
         socks == getWebSockets \ {c}
     IN /\ gm_room' = room2
        /\ ws' = [ws EXCEPT ![c] = NoSocket]
        /\ out' = <<_broadcastPresence(socks)>> \o _broadcastRoles(socks, room2)
  /\ UNCHANGED <<kind, clients, xq_room, uuid, now>>

InitLegacy ==
  /\ kind = "legacy"
  /\ clients = "legacy"
  /\ gm_room = LegacyDefaultRoom
  /\ xq_room = _xqDefaultRoom
  /\ ws = [c \in Conn |-> NoSocket]
  /\ uuid = 0
  /\ now = Now0
  /\ out = <<>>

NextLegacy ==
  \/ \E c \in Conn : GomokuRoom_fetch_part001(c)
  \/ \E c \in Conn, msg \in LegacyMoves : GomokuRoom_onMessage_part001(c, msg)
  \/ \E c \in Conn : GomokuRoom_onClose_part001(c)

SpecLegacy == InitLegacy /\ [][NextLegacy]_vars

\* ------------------------------------------------------- /relay routing
\* url.searchParams.get("game") and get("room") of the requests the worker
\* is sent: "" stands for a parameter that is absent or empty
RouteGames == {"", "relay", "xq", "xq:a"}
RouteRooms == {"", "b", "a:b"}

\* const name = `${game}:${roomId}` (lines 244-246)
ActorNameOf(game, room) ==
  (IF game = "" THEN "relay" ELSE game) \o ":" \o (IF room = "" THEN "default" ELSE room)

\* the name of the RelayRoom actor a behaviour of SpecRoute follows
RouteActor == "xq:a:b"

\* _fetchRelay(): the socket is attached as a relay socket
_fetchRelay(c) ==
  /\ ws' = [ws EXCEPT ![c] = [status |-> "open", att |-> [game |-> "relay"],
                              closed |-> "", you |-> 0]]
  /\ out' = <<_broadcastPresence(getWebSockets \cup {c})>>
  /\ UNCHANGED <<kind, clients, gm_room, xq_room, uuid, now>>

\* the worker's fetch on /relay (lines 240-249) and RelayRoom.fetch (lines
\* 637-642) of the actor the name resolves to
Worker_fetch_relay(c, game, room) ==
  /\ ActorNameOf(game, room) = RouteActor
  /\ ws[c].status = "free"
  /\ \A b \in 1..(c - 1) : ws[b].status # "free"
  /\ IF (IF game = "" THEN "relay" ELSE game) = "xq"
       THEN _fetchXQ(c, "", "auto")
       ELSE _fetchRelay(c)

\* what relay clients send
RelayMessages == {[type |-> "chat"], [type |-> "xq_reset"]}

\* webSocketMessage of RelayRoom on a game = "relay" socket (lines 762-765)
RelayRoom_webSocketMessage_relay(c, msg) ==
  /\ ws[c].status = "open"
  /\ ws[c].att.game = "relay"
  /\ out' = <<_broadcast(getWebSockets, msg)>>
  /\ UNCHANGED <<kind, clients, gm_room, xq_room, ws, uuid, now>>

\* webSocketClose of RelayRoom on a socket that is no game = "xq" socket
RelayRoom_webSocketClose_relay(c) ==
  /\ ws[c].status \in {"open", "closing"}
  /\ ws[c].att.game = "relay"
  /\ ws' = [ws EXCEPT ![c] = NoSocket]
  /\ out' = <<_broadcastPresence(getWebSockets \ {c})>>
  /\ UNCHANGED <<kind, clients, gm_room, xq_room, uuid, now>>

\* one RelayRoom actor and the /relay requests whose name resolves to it
InitRoute ==
  /\ kind = "xq"
  /\ clients = "callers"
  /\ gm_room = _defaultRoom
  /\ xq_room = _xqDefaultRoom
  /\ ws = [c \in Conn |-> NoSocket]
  /\ uuid = 0
  /\ now = Now0
  /\ out = <<>>

NextRoute ==
  \/ \E c \in Conn, game \in RouteGames, room \in RouteRooms :
       Worker_fetch_relay(c, game, room)
  \/ \E c \in Conn, msg \in XqMessages :
       ws[c].att.game = "xq" /\ RelayRoom_webSocketMessage(c, msg)
  \/ \E c \in Conn, msg \in RelayMessages : RelayRoom_webSocketMessage_relay(c, msg)
  \/ \E c \in Conn : ws[c].att.game = "xq" /\ RelayRoom_webSocketClose(c)
  \/ \E c \in Conn : RelayRoom_webSocketClose_relay(c)

SpecRoute == InitRoute /\ [][NextRoute]_vars

\* what a handler leaves of itself when it throws: nothing was sent
Threw == [m |-> [type |-> "#throw"], to |-> {}]

\* a handler that sends before it persists
PutFails_AfterBroadcast(room, res) == [room |-> room, out |-> res.out]

\* `await this.state.storage.put(...)` rejects in a move handler: the
\* handler throws there, the stored record is the one it loaded and the
\* broadcasts that follow the put are not made
PutFails(room, res) == [room |-> room, out |-> <<Threw>>]

\* webSocketMessage of GomokuRoom, on a move whose put (line 403 or 409) fails
GomokuRoom_webSocketMessage_putFails(c, msg) ==
  /\ kind = "gomoku"
  /\ ws[c].status = "open"
  /\ msg.type = "move"
  /\ Len(gm_room.moves) < MaxMoves
  /\ LET res == GmMove(gm_room, c, _roleFromToken(ws[c].att.token, gm_room), msg,
                       now, getWebSockets)
     IN /\ res.room # gm_room
        /\ gm_room' = PutFails(gm_room, res).room
        /\ out' = PutFails(gm_room, res).out
  /\ UNCHANGED <<kind, clients, xq_room, ws, uuid, now>>

\* webSocketMessage of RelayRoom, on an xq_move whose put (line 908) fails
RelayRoom_webSocketMessage_putFails(c, msg) ==
  /\ kind = "xq"
  /\ ws[c].status = "open"
  /\ msg.type = "xq_move"
  /\ Len(xq_room.moves) < MaxMoves
  /\ LET res == _handleXqMessage(xq_room, c, ws[c].att, msg, now, getWebSockets)
     IN /\ res.room # xq_room
        /\ xq_room' = PutFails(xq_room, res).room
        /\ out' = PutFails(xq_room, res).out
  /\ UNCHANGED <<kind, clients, gm_room, ws, uuid, now>>

\* rooms of "players" whose storage may refuse the put of a move
InitFault ==
  /\ kind \in {"gomoku", "xq"}
  /\ clients = "players"
  /\ gm_room = _defaultRoom
  /\ xq_room = _xqDefaultRoom
  /\ ws = [c \in Conn |-> NoSocket]
  /\ uuid = 0
  /\ now = Now0
  /\ out = <<>>

NextFault ==
  \/ \E c \in Conn, tokenParam \in TokenParams, want \in GmWants :
       GomokuRoom_fetch(c, tokenParam, want)
  \/ \E c \in Conn, msg \in GmMessages : GomokuRoom_webSocketMessage(c, msg)
  \/ \E c \in Conn, msg \in GmMessages : GomokuRoom_webSocketMessage_putFails(c, msg)
  \/ \E c \in Conn : GomokuRoom_webSocketClose(c)
  \/ \E c \in Conn, tokenParam \in TokenParams, want \in XqWants :
       _fetchXQ(c, tokenParam, want)
  \/ \E c \in Conn, msg \in XqMessages : RelayRoom_webSocketMessage(c, msg)
  \/ \E c \in Conn, msg \in XqMessages : RelayRoom_webSocketMessage_putFails(c, msg)
  \/ \E c \in Conn : RelayRoom_webSocketClose(c)

SpecFault == InitFault /\ [][NextFault]_vars

\* ---- endgames: the inputs of checkWin
\* the stones of an endgame: black on the line through the centre (9,9) in
\* direction d, at the distances in `ks` from it; white on row 0, apart
EndgameMoves(d, ks) ==
  LET order == SetToSeq(ks)
  IN [i \in 1..(2 * Len(order)) |->
        IF i % 2 = 1
          THEN [r |-> 9 + d[1] * order[(i + 1) \div 2],
                c |-> 9 + d[2] * order[(i + 1) \div 2], p |-> GOMOKU_BLACK]
          ELSE [r |-> 0, c |-> i - 2, p |-> GOMOKU_WHITE]]

InitWin ==
  /\ kind = "gomoku"
  /\ clients = "endgame"
  /\ \E d \in {<<1, 0>>, <<0, 1>>, <<1, 1>>, <<1, -1>>} :
       \E ks \in SUBSET {-4, -3, -2, -1, 1, 2, 3, 4} :
         /\ Cardinality(ks) \in {4, 5}
         /\ gm_room = [_defaultRoom EXCEPT
                         !.blackToken = randomUUID(0), !.whiteToken = randomUUID(1),
                         !.blackLastSeen = Now0, !.whiteLastSeen = Now0,
                         !.moves = EndgameMoves(d, ks)]
  /\ xq_room = _xqDefaultRoom
  /\ ws = [c \in Conn |->
             IF c <= 2
               THEN [status |-> "open",
                     att |-> [game |-> "gomoku", token |-> randomUUID(c - 1)],
                     closed |-> "", you |-> c]
               ELSE NoSocket]
  /\ uuid = 2
  /\ now = Now0
  /\ out = <<>>

NextWin ==
  \E c \in Conn, msg \in GmMessages : GomokuRoom_webSocketMessage(c, msg)

SpecWin == InitWin /\ [][NextWin]_vars

\* ---- a Xiangqi game four plies old, red to move
InitMate ==
  /\ kind = "xq"
  /\ clients = "mate"
  /\ gm_room = _defaultRoom
  /\ xq_room = [_xqDefaultRoom EXCEPT
                  !.redToken = randomUUID(0), !.blackToken = randomUUID(1),
                  !.redLastSeen = Now0, !.blackLastSeen = Now0,
                  !.moves = SubSeq(MateLine, 1, 4)]
  /\ ws = [c \in Conn |->
             IF c <= 2
               THEN [status |-> "open",
                     att |-> [game |-> "xq", role |-> c, token |-> randomUUID(c - 1)],
                     closed |-> "", you |-> c]
               ELSE NoSocket]
  /\ uuid = 2
  /\ now = Now0
  /\ out = <<>>

NextMate ==
  \E c \in Conn, msg \in XqMessages : RelayRoom_webSocketMessage(c, msg)

SpecMate == InitMate /\ [][NextMate]_vars
\* ------------------------------------------------------------ properties
\* the record of the room this behaviour follows, and its two seats
record == IF kind = "gomoku" THEN gm_room ELSE xq_room
seatA == IF kind = "gomoku" THEN gm_room.blackToken ELSE xq_room.redToken
seatB == IF kind = "gomoku" THEN gm_room.whiteToken ELSE xq_room.blackToken

\* steps: connection c opens; the handler answered c alone with a reject;
\* a rematch or swap reset was broadcast
Opens(c) == ws[c].status = "free" /\ ws'[c].status = "open"
RejectTo(c) == Len(out') = 1 /\ out'[1].to = {c} /\ out'[1].m.type = "reject"
ResetSent == \E i \in 1..Len(out') : out'[i].m.type \in {"state", "xq_reset"}

\* the attached connections that carry `token`
Holders(token) == {w \in Conn : ws[w].status = "open" /\ ws[w].att.token = token}

\* C1: in a Gomoku room the persisted moves alternate BLACK, WHITE, BLACK, ...
\* from the first entry on, and no two entries are on the same (r,c).
C1_MovesAlternate ==
  /\ \A i \in 1..Len(gm_room.moves) :
       gm_room.moves[i].p = IF i % 2 = 1 THEN GOMOKU_BLACK ELSE GOMOKU_WHITE
  /\ \A i, j \in 1..Len(gm_room.moves) :
       i # j => <<gm_room.moves[i].r, gm_room.moves[i].c>>
                  # <<gm_room.moves[j].r, gm_room.moves[j].c>>

\* two stones are on the board
C1_TwoStones == kind = "gomoku" /\ Len(gm_room.moves) >= 2

\* C2: once gameOver is true, a move (Gomoku) or xq_move (Xiangqi) from any
\* connection is answered with one reject to the sender and leaves moves,
\* current, gameOver and winner as they were.
C2_NoMoveOnceOver ==
  [][\A c \in Conn :
       /\ \A msg \in GmMoveInputs :
            (GomokuRoom_webSocketMessage(c, msg) /\ gm_room.gameOver)
              => /\ RejectTo(c)
                 /\ gm_room'.moves = gm_room.moves
                 /\ gm_room'.current = gm_room.current
                 /\ gm_room'.gameOver /\ gm_room'.winner = gm_room.winner
       /\ \A msg \in XqMoveInputs :
            (RelayRoom_webSocketMessage(c, msg) /\ xq_room.gameOver)
              => /\ RejectTo(c)
                 /\ xq_room'.moves = xq_room.moves
                 /\ xq_room'.current = xq_room.current
                 /\ xq_room'.gameOver /\ xq_room'.winner = xq_room.winner]_vars

\* a Xiangqi game is over and the last handler rejected a message for that
C2_RejectedOver ==
  /\ kind = "xq" /\ clients = "players" /\ xq_room.gameOver
  /\ \E c \in Conn : out = <<send(c, [type |-> "reject", reason |-> REJ_OVER])>>

\* C3: at most one attached connection carries a given non-empty seat token,
\* and an open handler closes with reason "reconnect" every other attached
\* connection that carries the token of the connection it admits.
C3_OneConnectionPerSeatToken ==
  /\ [](\A t \in {seatA, seatB} \ {""} : Cardinality(Holders(t)) <= 1)
  /\ [][\A c \in Conn : \A w \in Conn \ {c} :
          (/\ Opens(c)
           /\ ws'[c].att.token # ""
           /\ ws[w].status = "open"
           /\ ws[w].att.token = ws'[c].att.token)
            => ws'[w].status = "closing" /\ ws'[w].closed = "reconnect"]_vars

\* a Xiangqi seat holder reconnected while its old connection was attached
C3_Kicked ==
  /\ kind = "xq"
  /\ \E c \in Conn : \E w \in Conn \ {c} :
       /\ ws[c].status = "open" /\ ws[c].att.token \in {seatA, seatB} \ {""}
       /\ ws[w].status = "closing" /\ ws[w].closed = "reconnect"
       /\ ws[w].att.token = ws[c].att.token

\* C4: an open replaces a non-empty seat token only when no attached
\* connection carries that token and now - lastSeen of the seat is strictly
\* greater than the grace period.
C4_StealOnlyAfterGrace ==
  [][\A c \in Conn :
       Opens(c) =>
         /\ (gm_room.blackToken # "" /\ gm_room'.blackToken # gm_room.blackToken)
              => /\ Holders(gm_room.blackToken) = {}
                 /\ now - gm_room.blackLastSeen > GM_GRACE_MS
         /\ (gm_room.whiteToken # "" /\ gm_room'.whiteToken # gm_room.whiteToken)
              => /\ Holders(gm_room.whiteToken) = {}
                 /\ now - gm_room.whiteLastSeen > GM_GRACE_MS
         /\ (xq_room.redToken # "" /\ xq_room'.redToken # xq_room.redToken)
              => /\ Holders(xq_room.redToken) = {}
                 /\ now - xq_room.redLastSeen > XQ_GRACE_MS
         /\ (xq_room.blackToken # "" /\ xq_room'.blackToken # xq_room.blackToken)
              => /\ Holders(xq_room.blackToken) = {}
                 /\ now - xq_room.blackLastSeen > XQ_GRACE_MS]_vars

\* the second token of a Gomoku room holds black while white was never
\* taken: lobby clients never leave, so the second open stole the seat
C4_Stolen ==
  /\ kind = "gomoku" /\ clients = "lobby"
  /\ uuid = 2 /\ gm_room.blackToken = randomUUID(1) /\ gm_room.whiteToken = ""
  /\ gm_room.blackLastSeen = now
  /\ Len(out) > 0
  /\ \E c \in Conn : out[1] = send(c, GmInit(GOMOKU_BLACK, randomUUID(1), gm_room))
\* C5: in a Xiangqi room a message from a connection whose attachment token
\* is no current seat token (it is empty, or equals neither redToken nor
\* blackToken) leaves the room record as it was.
C5_XqAuthorityFromToken ==
  [][\A c \in Conn : \A msg \in XqMessages :
       (/\ RelayRoom_webSocketMessage(c, msg)
        /\ \/ ws[c].att.token = ""
           \/ ws[c].att.token \notin {xq_room.redToken, xq_room.blackToken})
         => xq_room' = xq_room]_vars

\* C6: no event of a connection that was assigned role 0 when it opened
\* (its open, its messages, its close) changes the room record.
C6_SpectatorChangesNothing ==
  [][\A c \in Conn :
       /\ (Opens(c) /\ ws'[c].you = 0) => record' = record
       /\ (/\ ws[c].status # "free"
           /\ ws[c].you = 0
           /\ \/ \E msg \in GmMessages : GomokuRoom_webSocketMessage(c, msg)
              \/ \E msg \in XqMessages : RelayRoom_webSocketMessage(c, msg)
              \/ GomokuRoom_webSocketClose(c)
              \/ RelayRoom_webSocketClose(c))
            => record' = record]_vars

\* a Gomoku spectator sent a move or a timeout and was turned away
C6_SpectatorRejected ==
  /\ kind = "gomoku"
  /\ \E c \in Conn :
       /\ ws[c].status = "open" /\ ws[c].you = 0
       /\ out = <<send(c, [type |-> "reject", reason |-> REJ_SPECTATOR])>>

\* C7: an open that presents a current seat token is given that seat's role
\* whatever it wants, gets the same token back in init, mints nothing, and
\* changes the record in that seat's lastSeen (set to now) only.
C7_ReconnectIdempotent ==
  [][\A c \in Conn : \A tokenParam \in TokenParams \ {""} :
       /\ \A want \in GmWants :
            (/\ GomokuRoom_fetch(c, tokenParam, want)
             /\ tokenParam \in {gm_room.blackToken, gm_room.whiteToken})
              => LET you == IF tokenParam = gm_room.blackToken
                              THEN GOMOKU_BLACK ELSE GOMOKU_WHITE
                 IN /\ ws'[c].you = you
                    /\ out'[1].to = {c} /\ out'[1].m.type = "init"
                    /\ out'[1].m.you = you /\ out'[1].m.token = tokenParam
                    /\ uuid' = uuid
                    /\ gm_room' = IF you = GOMOKU_BLACK
                                    THEN [gm_room EXCEPT !.blackLastSeen = now]
                                    ELSE [gm_room EXCEPT !.whiteLastSeen = now]
       /\ \A want \in XqWants :
            (/\ _fetchXQ(c, tokenParam, want)
             /\ tokenParam \in {xq_room.redToken, xq_room.blackToken})
              => LET you == IF tokenParam = xq_room.redToken
                              THEN XQ_RED ELSE XQ_BLACK
                 IN /\ ws'[c].you = you
                    /\ out'[1].to = {c} /\ out'[1].m.type = "init"
                    /\ out'[1].m.you = you /\ out'[1].m.token = tokenParam
                    /\ uuid' = uuid
                    /\ xq_room' = IF you = XQ_RED
                                    THEN [xq_room EXCEPT !.redLastSeen = now]
                                    ELSE [xq_room EXCEPT !.blackLastSeen = now]]_vars

\* Gomoku's white came back with its token some time after it was seated,
\* while its old connection was still attached
C7_Reconnected ==
  /\ kind = "gomoku" /\ uuid = 2
  /\ gm_room.whiteToken = randomUUID(1)
  /\ gm_room.whiteLastSeen = now /\ gm_room.blackLastSeen < now
  /\ Len(out) > 0
  /\ \E c \in Conn : \E w \in Conn \ {c} :
       /\ out[1] = send(c, GmInit(GOMOKU_WHITE, randomUUID(1), gm_room))
       /\ ws[c].status = "open" /\ ws[c].att.token = randomUUID(1)
       /\ ws[w].closed = "reconnect" /\ ws[w].att.token = randomUUID(1)
\* the case of C8: lobby clients never leave and never swap, so when the
\* second token a Gomoku room minted holds black and white is empty, the
\* first token was black's and a steal replaced it, white never being taken
StaleBlack ==
  /\ kind = "gomoku" /\ clients = "lobby"
  /\ uuid = 2 /\ gm_room.blackToken = randomUUID(1) /\ gm_room.whiteToken = ""

\* C8 as the specification states it: in the case above a connection that
\* presents the replaced token with want=auto is assigned role 0 and takes
\* no seat.
C8_StaleTokenSpectates ==
  [][\A c \in Conn :
       (StaleBlack /\ GomokuRoom_fetch(c, randomUUID(0), "auto"))
         => /\ ws'[c].you = 0
            /\ gm_room'.blackToken = gm_room.blackToken
            /\ gm_room'.whiteToken = ""]_vars

\* C8, amended: the replaced token matches no seat, so its bearer is seated
\* like any newcomer.  With want=auto it steals black again if black has no
\* attached holder and is past its grace, and otherwise takes the empty
\* white seat, under a newly minted token either way; it is a spectator
\* only if it asks for black while black cannot be stolen, or asks to watch.
C8_StaleTokenIsNewcomer ==
  [][\A c \in Conn :
       LET stealable == /\ Holders(gm_room.blackToken) = {}
                        /\ now - gm_room.blackLastSeen > GM_GRACE_MS
       IN /\ (StaleBlack /\ GomokuRoom_fetch(c, randomUUID(0), "auto"))
               => /\ ws'[c].att.token = randomUUID(2)
                  /\ out'[1].m.token = randomUUID(2)
                  /\ IF stealable
                       THEN /\ ws'[c].you = GOMOKU_BLACK
                            /\ gm_room'.blackToken = randomUUID(2)
                            /\ gm_room'.whiteToken = ""
                       ELSE /\ ws'[c].you = GOMOKU_WHITE
                            /\ gm_room'.whiteToken = randomUUID(2)
                            /\ gm_room'.blackToken = gm_room.blackToken
          /\ (StaleBlack /\ ~stealable /\ GomokuRoom_fetch(c, randomUUID(0), "black"))
               => ws'[c].you = 0 /\ gm_room' = gm_room
          /\ (StaleBlack /\ GomokuRoom_fetch(c, randomUUID(0), "spectate"))
               => ws'[c].you = 0 /\ gm_room' = gm_room]_vars

\* the third token of the room holds white beside the stealer's black
C8_SeatedAsWhite ==
  /\ kind = "gomoku" /\ clients = "lobby" /\ uuid = 3
  /\ gm_room.blackToken = randomUUID(1) /\ gm_room.whiteToken = randomUUID(2)
  /\ Len(out) > 0
  /\ \E c \in Conn : out[1] = send(c, GmInit(GOMOKU_WHITE, randomUUID(2), gm_room))

\* C9: right after a rematch or swap reset the record has no moves, seat A
\* to move, gameOver false, winner 0, an empty reason, and no vote.
C9_ResetIsFresh ==
  [][ResetSent =>
       /\ record'.moves = <<>>
       /\ record'.current = (IF kind = "gomoku" THEN GOMOKU_BLACK ELSE XQ_RED)
       /\ ~record'.gameOver /\ record'.winner = 0 /\ record'.reason = ""
       /\ \A b \in {1, 2} : ~record'.rematch[b] /\ ~record'.swap[b]]_vars

\* a Gomoku rematch reset was just broadcast
C9_RematchReset ==
  /\ kind = "gomoku"
  /\ \E i, j \in 1..Len(out) :
       out[i].m.type = "rematch_pending" /\ out[j].m.type = "state"

\* C10: a reset fires only on a rematch or swap vote cast while both seat
\* tokens are non-empty and the other role has voted the same (the sender's
\* own flag is the one the message sets); a rematch reset needs gameOver too.
C10_ResetIsVoteGated ==
  [][\A c \in Conn :
       /\ \A msg \in GmMessages :
            (GomokuRoom_webSocketMessage(c, msg) /\ ResetSent)
              => LET role == _roleFromToken(ws[c].att.token, gm_room)
                 IN /\ gm_room.blackToken # "" /\ gm_room.whiteToken # ""
                    /\ msg.type \in {"rematch", "swap"}
                    /\ msg.type = "rematch"
                         => /\ gm_room.gameOver
                            /\ \A b \in {1, 2} : gm_room.rematch[b] \/ b = role
                    /\ msg.type = "swap"
                         => \A b \in {1, 2} : gm_room.swap[b] \/ b = role
       /\ \A msg \in XqMessages :
            (RelayRoom_webSocketMessage(c, msg) /\ ResetSent)
              => LET role == ws[c].att.role
                 IN /\ xq_room.redToken # "" /\ xq_room.blackToken # ""
                    /\ msg.type \in {"xq_rematch", "xq_swap"}
                    /\ msg.type = "xq_rematch"
                         => /\ xq_room.gameOver
                            /\ \A b \in {1, 2} : xq_room.rematch[b] \/ b = role
                    /\ msg.type = "xq_swap"
                         => \A b \in {1, 2} : xq_room.swap[b] \/ b = role]_vars

\* both rematch votes of a finished Gomoku game are in, a seat is empty, and
\* the game was not reset
C10_VotesButEmptySeat ==
  /\ kind = "gomoku" /\ gm_room.gameOver
  /\ gm_room.rematch[GOMOKU_BLACK] /\ gm_room.rematch[GOMOKU_WHITE]
  /\ gm_room.blackToken = "" \/ gm_room.whiteToken = ""

\* C11: a swap (Gomoku) or xq_swap (Xiangqi) received while the game is in
\* progress (gameOver false, moves not empty) leaves the room record as it
\* was, and no event exchanges the two seat tokens in such a state.
C11_NoSwapMidGame ==
  [][/\ \A c \in Conn :
          /\ (/\ GomokuRoom_webSocketMessage(c, [type |-> "swap"])
              /\ ~gm_room.gameOver /\ Len(gm_room.moves) > 0)
               => gm_room' = gm_room
          /\ (/\ RelayRoom_webSocketMessage(c, [type |-> "xq_swap"])
              /\ ~xq_room.gameOver /\ Len(xq_room.moves) > 0)
               => xq_room' = xq_room
     /\ (/\ seatA # seatB
         /\ gm_room'.blackToken = gm_room.whiteToken
         /\ gm_room'.whiteToken = gm_room.blackToken
         /\ xq_room'.redToken = xq_room.blackToken
         /\ xq_room'.blackToken = xq_room.redToken)
          => record.gameOver \/ record.moves = <<>>]_vars

\* a Gomoku game is under way between two attached players, and the last
\* message was dropped without an answer
C11_MidGameSilence ==
  /\ kind = "gomoku" /\ clients = "players"
  /\ ~gm_room.gameOver /\ Len(gm_room.moves) > 0
  /\ Holders(gm_room.blackToken) # {} /\ Holders(gm_room.whiteToken) # {}
  /\ gm_room.blackToken # "" /\ gm_room.whiteToken # ""
  /\ out = <<>>

\* C12: after every accepted move (a Gomoku move or a Xiangqi xq_move that
\* appends to moves, terminal or not) every entry of the rematch and of the
\* swap vote map is false.
C12_MoveClearsVotes ==
  [][Len(record'.moves) > Len(record.moves)
       => \A b \in {1, 2} : ~record'.rematch[b] /\ ~record'.swap[b]]_vars

\* a first Xiangqi move was just accepted and broadcast
C12_XqMoveAccepted ==
  /\ kind = "xq" /\ Len(xq_room.moves) = 1
  /\ Len(out) = 1 /\ out[1].m.type = "xq_move"
  /\ \A b \in {1, 2} : ~xq_room.rematch[b] /\ ~xq_room.swap[b]

\* C13: across one event (open, message, close) the persisted moves are
\* unchanged, or are the previous list with exactly one move appended, or
\* become empty in a rematch or swap reset.
C13_MovesGrowOrReset ==
  [][\/ record'.moves = record.moves
     \/ /\ Len(record'.moves) = Len(record.moves) + 1
        /\ SubSeq(record'.moves, 1, Len(record.moves)) = record.moves
     \/ record'.moves = <<>> /\ ResetSent]_vars

\* white's answer to black's first stone was just appended and broadcast
C13_SecondStoneAppended ==
  /\ kind = "gomoku" /\ Len(gm_room.moves) = 2
  /\ Len(out) = 1 /\ out[1].m.type = "move" /\ out[1].m.p = GOMOKU_WHITE
  /\ out[1].m.r = gm_room.moves[2].r /\ out[1].m.c = gm_room.moves[2].c

\* the record without its two lastSeen stamps
Game(room) ==
  [moves |-> room.moves, current |-> room.current, gameOver |-> room.gameOver,
   winner |-> room.winner, reason |-> room.reason,
   rematch |-> room.rematch, swap |-> room.swap]

\* the seat token `old` gave way to `new` in a way C14 allows: it is
\* unchanged; or it was empty; or it became empty in a leave; or it was
\* replaced by an open while no attached connection carried it and its
\* lastSeen was more than the grace period ago, or by a swap of the seats
SeatKept(old, new, lastSeen, other) ==
  \/ new = old
  \/ old = ""
  \/ /\ new = ""
     /\ \E c \in Conn :
          \/ GomokuRoom_webSocketMessage(c, [type |-> "gm_leave"])
          \/ RelayRoom_webSocketMessage(c, [type |-> "xq_leave"])
  \/ /\ new # ""
     /\ \E c \in Conn : Opens(c)
     /\ Holders(old) = {}
     /\ now - lastSeen > GM_GRACE_MS
  \/ /\ new = other
     /\ ResetSent
     /\ \E c \in Conn :
          \/ GomokuRoom_webSocketMessage(c, [type |-> "swap"])
          \/ RelayRoom_webSocketMessage(c, [type |-> "xq_swap"])

\* C14: a close handler leaves both seat tokens, moves, current, gameOver,
\* winner, reason and both vote maps as they were; a non-empty seat token
\* becomes empty only in a leave, and is replaced only by a steal after the
\* grace period or by a swap.
C14_CloseKeepsSeat ==
  [][/\ \A c \in Conn :
          (GomokuRoom_webSocketClose(c) \/ RelayRoom_webSocketClose(c))
            => /\ seatA' = seatA /\ seatB' = seatB
               /\ Game(record') = Game(record)
     /\ SeatKept(gm_room.blackToken, gm_room'.blackToken,
                 gm_room.blackLastSeen, gm_room.whiteToken)
     /\ SeatKept(gm_room.whiteToken, gm_room'.whiteToken,
                 gm_room.whiteLastSeen, gm_room.blackToken)
     /\ SeatKept(xq_room.redToken, xq_room'.redToken,
                 xq_room.redLastSeen, xq_room.blackToken)
     /\ SeatKept(xq_room.blackToken, xq_room'.blackToken,
                 xq_room.blackLastSeen, xq_room.redToken)]_vars

\* black's only connection has closed, with nobody leaving, and the seat is
\* still black's
C14_SeatHeldAfterClose ==
  /\ kind = "gomoku" /\ clients = "players"
  /\ gm_room.blackToken # "" /\ Holders(gm_room.blackToken) = {}
  /\ Len(out) = 2 /\ out[1].m.type = "gm_seats" /\ out[1].m.seats.black

\* C15: a leave from a connection whose attachment token is its seat's
\* token empties that seat (token "", lastSeen 0) and changes nothing else;
\* a leave from a connection whose token is no seat's token changes nothing.
C15_LeaveClearsOwnSeat ==
  [][\A c \in Conn :
       LET token == ws[c].att.token
       IN /\ GomokuRoom_webSocketMessage(c, [type |-> "gm_leave"])
               => gm_room' =
                    IF token # "" /\ token = gm_room.blackToken
                      THEN [gm_room EXCEPT !.blackToken = "", !.blackLastSeen = 0]
                    ELSE IF token # "" /\ token = gm_room.whiteToken
                      THEN [gm_room EXCEPT !.whiteToken = "", !.whiteLastSeen = 0]
                    ELSE gm_room
          /\ RelayRoom_webSocketMessage(c, [type |-> "xq_leave"])
               => xq_room' =
                    IF token # "" /\ token = xq_room.redToken
                      THEN [xq_room EXCEPT !.redToken = "", !.redLastSeen = 0]
                    ELSE IF token # "" /\ token = xq_room.blackToken
                      THEN [xq_room EXCEPT !.blackToken = "", !.blackLastSeen = 0]
                    ELSE xq_room]_vars

\* the first player of a Gomoku room has left black and is still attached
C15_BlackLeft ==
  /\ kind = "gomoku" /\ clients = "voters"
  /\ gm_room.blackToken = "" /\ gm_room.blackLastSeen = 0
  /\ Holders(randomUUID(0)) # {}
  /\ Len(out) = 2 /\ out[1].m.type = "gm_seats" /\ ~out[1].m.seats.black

\* the stones of role p, and whether five of them in a row, a column or a
\* diagonal, next to each other, include the stone at (r,c)
Stones(moves, p) ==
  {<<moves[i].r, moves[i].c>> : i \in {j \in 1..Len(moves) : moves[j].p = p}}

FiveThrough(stones, r, c) ==
  \E d \in {<<1, 0>>, <<0, 1>>, <<1, 1>>, <<1, -1>>} :
    \E first \in -4..0 :
      \A k \in first..(first + 4) : <<r + d[1] * k, c + d[2] * k>> \in stones

\* C16: an accepted Gomoku move at (r,c) by role p ends the game, with
\* winner p and the five-in-a-row reason, exactly when p then has five or
\* more stones next to each other on a row, column or diagonal through
\* (r,c); otherwise gameOver stays false and the other role is to move.
C16_WinIffFiveInRow ==
  [][Len(gm_room'.moves) = Len(gm_room.moves) + 1
       => LET m == gm_room'.moves[Len(gm_room'.moves)]
          IN IF FiveThrough(Stones(gm_room'.moves, m.p), m.r, m.c)
               THEN /\ gm_room'.gameOver
                    /\ gm_room'.winner = m.p
                    /\ gm_room'.reason = WU_LIAN
               ELSE /\ ~gm_room'.gameOver
                    /\ gm_room'.current = Other(m.p)]_vars

\* black has just won by a stone on the centre of a diagonal
C16_DiagonalFive ==
  /\ clients = "endgame" /\ gm_room.gameOver
  /\ gm_room.winner = GOMOKU_BLACK /\ gm_room.reason = WU_LIAN
  /\ {<<8, 10>>, <<10, 8>>} \subseteq Stones(gm_room.moves, GOMOKU_BLACK)
  /\ Len(out) = 1 /\ out[1].m.type = "move" /\ out[1].m.win = GOMOKU_BLACK
  /\ out[1].m.r = 9 /\ out[1].m.c = 9

\* the engine colour of a role
ColorOf(role) == IF role = XQ_RED THEN XQ_RED_COLOR ELSE XQ_BLACK_COLOR

\* C17: after an accepted xq_move by `role` the game is over, with winner
\* `role`, exactly when the opponent has no legal move; the reason is the
\* checkmate one if the opponent's king is in check and the stalemate one
\* otherwise; when the opponent has a legal move gameOver stays false; the
\* opponent is the one to move.
C17_XqTerminalDetection ==
  [][Len(xq_room'.moves) = Len(xq_room.moves) + 1
       => \A role \in {xq_room'.moves[Len(xq_room'.moves)].p} :
            \A board \in {buildXqEngineFromMoves(xq_room'.moves).board} :
              \A stuck \in {getMoves(board, ColorOf(XqOther(role))) = {}} :
                /\ xq_room'.current = XqOther(role)
                /\ xq_room'.gameOver = stuck
                /\ stuck => /\ xq_room'.winner = role
                            /\ xq_room'.reason =
                                 IF isChecked(board, ColorOf(XqOther(role)))
                                   THEN JUE_SHA ELSE KUN_BI
                /\ ~stuck => xq_room'.winner = xq_room.winner]_vars

\* red's second cannon has just mated black on the central file
C17_Checkmated ==
  /\ clients = "mate" /\ xq_room.moves = MateLine
  /\ xq_room.gameOver /\ xq_room.winner = XQ_RED /\ xq_room.reason = JUE_SHA
  /\ Len(out) = 2 /\ out[1].m.type = "xq_move" /\ out[2].m.type = "xq_over"

\* the replay of `moves` from engine e skips none of them and ends with
\* `color` to move
RECURSIVE ReplaySkipsNone(_, _, _, _)
ReplaySkipsNone(e, moves, i, color) ==
  IF i > Len(moves) THEN e.turn = color
  ELSE \A legal \in {findLegalMove(e, moves[i].from.r, moves[i].from.c,
                                    moves[i].to.r, moves[i].to.c)} :
         /\ legal # {}
         /\ ReplaySkipsNone(applyMove(e, CHOOSE l \in legal : TRUE), moves, i + 1, color)

\* C18: the replay of a persisted Xiangqi moves list skips no move, and gives
\* the board and the side to move that applying each move, when it was
\* accepted, to the replay of the list before it gave; the side to move of
\* the replay is room.current.
C18_ReplayIsIncremental ==
  /\ [](ReplaySkipsNone(XqEngine_init, xq_room.moves, 1, ColorOf(xq_room.current)))
  /\ [][/\ xq_room'.moves = xq_room.moves => xq_room'.current = xq_room.current
        /\ xq_room'.moves = <<>> => xq_room'.current = XQ_RED
        /\ Len(xq_room'.moves) = Len(xq_room.moves) + 1
             => \A m \in {xq_room'.moves[Len(xq_room'.moves)]} :
                  \A before \in {buildXqEngineFromMoves(xq_room.moves)} :
                    \A legal \in {findLegalMove(before, m.from.r, m.from.c,
                                                m.to.r, m.to.c)} :
                      /\ SubSeq(xq_room'.moves, 1, Len(xq_room.moves)) = xq_room.moves
                      /\ before.turn = ColorOf(xq_room.current)
                      /\ legal # {}
                      /\ \A after \in {buildXqEngineFromMoves(xq_room'.moves)} :
                           /\ after = applyMove(before, CHOOSE l \in legal : TRUE)
                           /\ after.turn = ColorOf(xq_room'.current)]_vars

\* black's third pawn move was just accepted, six plies into the game
C18_SixPlies ==
  /\ clients = "mate" /\ xq_room.moves = SubSeq(MateLine, 1, 6)
  /\ xq_room.current = XQ_RED /\ ~xq_room.gameOver
  /\ Len(out) = 1 /\ out[1].m.type = "xq_move" /\ out[1].m.p = XQ_BLACK

\* C19: when a Gomoku swap completes, the seat tokens and the lastSeen
\* stamps are exchanged, no connection is closed, and every attached
\* connection is sent one role message of its own, whose `you` is the role
\* of its token in the new record: 2 for the holder of the former black
\* token, 1 for the holder of the former white token, 0 for the others.
C19_SwapTellsRoles ==
  [][\A c \in Conn :
       (GomokuRoom_webSocketMessage(c, [type |-> "swap"]) /\ ResetSent)
         => /\ gm_room'.blackToken = gm_room.whiteToken
            /\ gm_room'.whiteToken = gm_room.blackToken
            /\ gm_room'.blackLastSeen = gm_room.whiteLastSeen
            /\ gm_room'.whiteLastSeen = gm_room.blackLastSeen
            /\ ws' = ws
            /\ \A w \in Conn :
                 LET told == {i \in 1..Len(out') :
                                out'[i].m.type = "role" /\ w \in out'[i].to}
                     you == IF ws[w].att.token = gm_room.blackToken THEN GOMOKU_WHITE
                            ELSE IF ws[w].att.token = gm_room.whiteToken THEN GOMOKU_BLACK
                            ELSE 0
                 IN IF ws[w].status = "open"
                      THEN /\ Cardinality(told) = 1
                           /\ \A i \in told :
                                /\ out'[i] = send(w, [type |-> "role", you |-> you])
                                /\ you = _roleFromToken(ws[w].att.token, gm_room')
                      ELSE told = {}]_vars

\* a swap has just completed with both players attached: each was told its
\* new role
C19_BothTold ==
  /\ kind = "gomoku"
  /\ \E b, w \in Conn :
       /\ ws[b].status = "open" /\ ws[b].att.token = gm_room.blackToken
       /\ ws[w].status = "open" /\ ws[w].att.token = gm_room.whiteToken
       /\ ws[b].you = GOMOKU_WHITE /\ ws[w].you = GOMOKU_BLACK
       /\ \E i, j \in 1..Len(out) :
            /\ out[i] = send(b, [type |-> "role", you |-> GOMOKU_BLACK])
            /\ out[j] = send(w, [type |-> "role", you |-> GOMOKU_WHITE])

\* C20: a rematch (xq_rematch) message of a role whose rematch flag is set
\* already, while the other role's is not, leaves the whole room record as
\* it was, and resets nothing.
C20_SecondRematchVoteIsIdle ==
  [][\A c \in Conn :
       /\ LET role == _roleFromToken(ws[c].att.token, gm_room)
          IN (/\ GomokuRoom_webSocketMessage(c, [type |-> "rematch"])
              /\ role \in {GOMOKU_BLACK, GOMOKU_WHITE}
              /\ gm_room.rematch[role] /\ ~gm_room.rematch[Other(role)])
               => gm_room' = gm_room /\ ~ResetSent
       /\ LET role == ws[c].att.role
          IN (/\ RelayRoom_webSocketMessage(c, [type |-> "xq_rematch"])
              /\ role \in {XQ_RED, XQ_BLACK}
              /\ xq_room.rematch[role] /\ ~xq_room.rematch[XqOther(role)])
               => xq_room' = xq_room /\ ~ResetSent]_vars

\* a finished Gomoku game, both players attached, black alone having asked
\* for a rematch, and the vote just broadcast
C20_OneVotePending ==
  /\ kind = "gomoku" /\ gm_room.gameOver
  /\ gm_room.rematch[GOMOKU_BLACK] /\ ~gm_room.rematch[GOMOKU_WHITE]
  /\ Holders(gm_room.blackToken) # {} /\ Holders(gm_room.whiteToken) # {}
  /\ gm_room.blackToken # "" /\ gm_room.whiteToken # ""
  /\ Len(out) = 2 /\ out[1].m.type = "rematch_pending"
  /\ out[2].m = votes(gm_room)

\* the places in the output of the step of the messages sent to socket w
SentTo(w) == {i \in 1..Len(out') : w \in out'[i].to}

\* C21: the first message a connection receives is its own init.  A socket
\* that is not attached before a step receives something in it only if the
\* step is its open, and then the first message it is sent is an init sent
\* to it alone; so every attached socket has had its init before any
\* broadcast.
C21_InitComesFirst ==
  [][\A w \in Conn :
       ws[w].status = "free"
         => /\ Opens(w) <=> SentTo(w) # {}
            /\ \A i \in SentTo(w) :
                 (\A j \in SentTo(w) : i <= j)
                   => /\ out'[i].m.type = "init"
                      /\ out'[i].to = {w}
                      /\ out'[i].m.you = ws'[w].you]_vars

\* a second connection was admitted beside an attached one: its init, then
\* the broadcasts that reach both
C21_InitThenBroadcasts ==
  /\ Len(out) = 3
  /\ \E c \in Conn : \E w \in Conn \ {c} :
       /\ out[1].to = {c} /\ out[1].m.type = "init"
       /\ out[2].to = {c, w} /\ out[3].to = {c, w}
       /\ ws[c].status = "open" /\ ws[w].status = "open"

\* the broadcasts of the step, in the order the handler produced them: the
\* messages that are not directed (init, reject and role are)
Broadcasts ==
  {i \in 1..Len(out') : out'[i].m.type \notin {"init", "reject", "role"}}

\* C22: two sockets that are attached before and after an event receive the
\* same broadcasts of its handler; each receives them in the order of `out`,
\* the order in which the handler produced them, so both see one order.
C22_SameBroadcastOrder ==
  [][\A v, w \in Conn :
       (/\ ws[v].status = "open" /\ ws'[v].status = "open"
        /\ ws[w].status = "open" /\ ws'[w].status = "open")
         => /\ \A i \in Broadcasts : v \in out'[i].to <=> w \in out'[i].to
            /\ \A i \in 1..Len(out') : out'[i].to # {} => out'[i].to \subseteq Conn]_vars

\* a Gomoku swap has just completed between two attached players: five
\* broadcasts reached both, around the two role messages
C22_FiveBroadcasts ==
  /\ kind = "gomoku" /\ Len(out) = 7
  /\ \E v \in Conn : \E w \in Conn \ {v} :
       /\ ws[v].status = "open" /\ ws[w].status = "open"
       /\ \A i \in {1, 2, 3, 6, 7} : out[i].to = {v, w}
       /\ out[1].m.type = "swap_pending" /\ out[3].m.type = "gm_seats"
       /\ out[6].m.type = "state"

\* the handler of the step sent a reject
Rejects == \E i \in 1..Len(out') : out'[i].m.type = "reject"

\* C23: when a handler rejects a message, everything it sends (the reject,
\* and the init of a Xiangqi resync) goes to the sender alone, no other
\* socket is sent anything or closed, and the room record is unchanged.
C23_RejectIsPrivate ==
  [][\A c \in Conn :
       (/\ \/ \E msg \in GmMessages : GomokuRoom_webSocketMessage(c, msg)
           \/ \E msg \in XqMessages : RelayRoom_webSocketMessage(c, msg)
        /\ Rejects)
         => /\ \A i \in 1..Len(out') :
                 out'[i].to = {c} /\ out'[i].m.type \in {"reject", "init"}
            /\ out'[1].m.type = "reject"
            /\ gm_room' = gm_room /\ xq_room' = xq_room
            /\ ws' = ws]_vars

\* an illegal Xiangqi move was answered with a reject and a resync, while
\* another socket was attached
C23_IllegalMoveResync ==
  /\ kind = "xq" /\ Len(out) = 2
  /\ \E c \in Conn : \E w \in Conn \ {c} :
       /\ ws[c].status = "open" /\ ws[w].status = "open"
       /\ out[1] = send(c, [type |-> "reject", reason |-> REJ_ILLEGAL])
       /\ out[2].to = {c} /\ out[2].m.type = "init"

\* the JSON number x, an integer, is not in 0..(n - 1)
Outside(x, n) == x.k = "number" /\ (x.w # 0 \/ x.v < 0 \/ x.v >= n)

\* C24: a move with a coordinate outside the board is rejected and is not
\* appended to moves, whatever integer the coordinate is, the integers
\* beyond the signed 32-bit range included: Gomoku r or c outside 0..18,
\* Xiangqi from or to outside rows 0..9 and columns 0..8.
C24_OutOfBoundsRejected ==
  [][\A c \in Conn :
       /\ \A msg \in GmMoveInputs :
            (/\ GomokuRoom_webSocketMessage(c, msg)
             /\ Outside(msg.r, SIZE) \/ Outside(msg.c, SIZE))
              => RejectTo(c) /\ gm_room'.moves = gm_room.moves
       /\ \A msg \in XqMoveInputs :
            (/\ RelayRoom_webSocketMessage(c, msg)
             /\ \E p \in {msg.from, msg.to} :
                  p # Undefined /\ (Outside(p.r, XQ_ROWS) \/ Outside(p.c, XQ_COLS)))
              => RejectTo(c) /\ xq_room'.moves = xq_room.moves]_vars

\* C25: a malformed message is dropped in silence: a frame that is not
\* JSON, a Gomoku move without r or c, an xq_move without from or to change
\* nothing in the room record and no message is sent to any socket.
C25_MalformedDropped ==
  [][\A c \in Conn :
       /\ \A msg \in GmMessages :
            (/\ GomokuRoom_webSocketMessage(c, msg)
             /\ \/ msg.type = "#text"
                \/ msg.type = "move" /\ Undefined \in {msg.r, msg.c})
              => gm_room' = gm_room /\ out' = <<>>
       /\ \A msg \in XqMessages :
            (/\ RelayRoom_webSocketMessage(c, msg)
             /\ \/ msg.type = "#text"
                \/ msg.type = "xq_move" /\ Undefined \in {msg.from, msg.to})
              => xq_room' = xq_room /\ out' = <<>>]_vars

\* C27: a close changes a seat's lastSeen only if the attachment token of
\* the closing connection is that seat's current token; the close of a
\* connection whose token is stale, or whose seat a leave has emptied,
\* changes no lastSeen (an empty seat keeps lastSeen 0).
C27_CloseRefreshesOwnSeatOnly ==
  [][\A c \in Conn :
       LET token == ws[c].att.token
       IN /\ GomokuRoom_webSocketClose(c)
               => /\ gm_room'.blackLastSeen # gm_room.blackLastSeen
                       => token # "" /\ token = gm_room.blackToken
                  /\ gm_room'.whiteLastSeen # gm_room.whiteLastSeen
                       => token # "" /\ token = gm_room.whiteToken
          /\ RelayRoom_webSocketClose(c)
               => /\ xq_room'.redLastSeen # xq_room.redLastSeen
                       => token # "" /\ token = xq_room.redToken
                  /\ xq_room'.blackLastSeen # xq_room.blackLastSeen
                       => token # "" /\ token = xq_room.blackToken]_vars

\* C28: an open that presents no seat's token and names a seat in `want`
\* is given that seat under a newly minted token (the seat's token is
\* replaced and its lastSeen is now) whenever the seat's token is not
\* empty, no attached connection carries that token and now - lastSeen of
\* the seat is greater than the grace period; in a Xiangqi room also when
\* an earlier holder of the seat sent xq_leave and stayed connected.
C28_StaleSeatIsStolen ==
  [][\A c \in Conn : \A tokenParam \in TokenParams :
       /\ \A want \in GmWants :
            \A seat \in {GOMOKU_BLACK, GOMOKU_WHITE} :
              \A token \in {IF seat = GOMOKU_BLACK THEN gm_room.blackToken
                            ELSE gm_room.whiteToken} :
                ( /\ GomokuRoom_fetch(c, tokenParam, want)
                  /\ _roleFromToken(tokenParam, gm_room) = 0
                  /\ want \in (IF seat = GOMOKU_BLACK THEN {"black", "b", "1"}
                               ELSE {"white", "w", "2"})
                  /\ token # "" /\ Holders(token) = {}
                  /\ now - (IF seat = GOMOKU_BLACK THEN gm_room.blackLastSeen
                            ELSE gm_room.whiteLastSeen) > GM_GRACE_MS )
                => /\ ws'[c].you = seat
                   /\ ws'[c].att.token = randomUUID(uuid)
                   /\ IF seat = GOMOKU_BLACK
                        THEN /\ gm_room'.blackToken = randomUUID(uuid)
                             /\ gm_room'.blackLastSeen = now
                        ELSE /\ gm_room'.whiteToken = randomUUID(uuid)
                             /\ gm_room'.whiteLastSeen = now
       /\ \A want \in XqWants :
            \A seat \in {XQ_RED, XQ_BLACK} :
              \A token \in {IF seat = XQ_RED THEN xq_room.redToken
                            ELSE xq_room.blackToken} :
                ( /\ _fetchXQ(c, tokenParam, want)
                  /\ tokenParam = "" \/ tokenParam \notin {xq_room.redToken,
                                                           xq_room.blackToken}
                  /\ want \in (IF seat = XQ_RED THEN {"red", "r", "1"}
                               ELSE {"black", "b", "2"})
                  /\ token # "" /\ Holders(token) = {}
                  /\ now - (IF seat = XQ_RED THEN xq_room.redLastSeen
                            ELSE xq_room.blackLastSeen) > XQ_GRACE_MS )
                => /\ ws'[c].you = seat
                   /\ ws'[c].att.token = randomUUID(uuid)
                   /\ IF seat = XQ_RED
                        THEN /\ xq_room'.redToken = randomUUID(uuid)
                             /\ xq_room'.redLastSeen = now
                        ELSE /\ xq_room'.blackToken = randomUUID(uuid)
                             /\ xq_room'.blackLastSeen = now]_vars

\* C29: only seated connections suppress duplicates: a connection admitted
\* with role 0 has the empty token in its attachment and its open closes
\* no other connection, whatever token it presented.
C29_SpectatorKicksNobody ==
  [][\A c \in Conn :
       (Opens(c) /\ ws'[c].you = 0)
         => /\ ws'[c].att.token = ""
            /\ \A w \in Conn \ {c} : ws'[w].status = ws[w].status]_vars

\* C30 (as stated): every rejected xq_move, whatever the failure, is
\* answered with a reject followed by a full init, both to the sender only.
C30_EveryRejectResyncs ==
  [][\A c \in Conn : \A msg \in XqMessages :
       (/\ RelayRoom_webSocketMessage(c, msg)
        /\ msg.type = "xq_move"
        /\ xq_room'.moves = xq_room.moves)
         => /\ Len(out') = 2
            /\ out'[1].to = {c} /\ out'[1].m.type = "reject"
            /\ out'[2].to = {c} /\ out'[2].m.type = "init"]_vars

\* C30 (amended): a rejected xq_move is answered with a reject to the
\* sender only and leaves the record and the sockets as they were.  The
\* reject is followed by a full init of the current record, to the sender
\* only, exactly when the engine refused the move (turn mismatch, illegal
\* move); a sender that is no player, a game that is over, a move out of
\* turn and a from or to found out of bounds are answered with the reject
\* alone.
C30_ResyncOnEngineRefusal ==
  [][\A c \in Conn : \A msg \in XqMessages :
       (/\ RelayRoom_webSocketMessage(c, msg)
        /\ msg.type = "xq_move"
        /\ xq_room'.moves = xq_room.moves)
         => /\ xq_room' = xq_room /\ ws' = ws
            /\ Len(out') \in {1, 2}
            /\ out'[1].to = {c} /\ out'[1].m.type = "reject"
            /\ Len(out') = 2 <=> out'[1].m.reason \in {REJ_DESYNC, REJ_ILLEGAL}
            /\ Len(out') = 1
                 <=> out'[1].m.reason \in {REJ_SPECTATOR, REJ_OVER, REJ_TURN,
                                           REJ_FROM, REJ_TO}
            /\ ( \/ ws[c].att.role \notin {XQ_RED, XQ_BLACK}
                 \/ xq_room.gameOver
                 \/ xq_room.current # ws[c].att.role ) => Len(out') = 1
            /\ Len(out') = 2
                 => /\ out'[2].to = {c} /\ out'[2].m.type = "init"
                    /\ out'[2].m.moves = xq_room.moves
                    /\ out'[2].m.current = xq_room.current
                    /\ out'[2].m.gameOver = xq_room.gameOver]_vars

\* a move out of turn was answered with the reject alone, while another
\* socket was attached
C30_LoneReject ==
  /\ kind = "xq"
  /\ \E c \in Conn : \E w \in Conn \ {c} :
       /\ ws[c].status = "open" /\ ws[w].status = "open"
       /\ out = <<send(c, [type |-> "reject", reason |-> REJ_TURN])>>

\* the squares strictly between a and b, which share a row or a column
Between(a, b) ==
  {sq \in Squares :
     \/ /\ a[1] = b[1] /\ sq[1] = a[1]
        /\ Min(a[2], b[2]) < sq[2] /\ sq[2] < Max(a[2], b[2])
     \/ /\ a[2] = b[2] /\ sq[2] = a[2]
        /\ Min(a[1], b[1]) < sq[1] /\ sq[1] < Max(a[1], b[1])}

Pieces(board, sqs) == {sq \in sqs : board[sq] # NoPiece}

\* the rules of the game: the piece on sq attacks the square k
Attacks(board, sq, k) ==
  LET p == board[sq]
      dr == k[1] - sq[1]
      dc == k[2] - sq[2]
      inLine == sq # k /\ (dr = 0 \/ dc = 0)
      forward == IF p.c = XQ_RED_COLOR THEN -1 ELSE 1
      crossed == IF p.c = XQ_RED_COLOR THEN sq[1] <= 4 ELSE sq[1] >= 5
      ownSide == IF p.c = XQ_RED_COLOR THEN k[1] >= 5 ELSE k[1] <= 4
      ownPalace == /\ k[2] \in 3..5
                   /\ IF p.c = XQ_RED_COLOR THEN k[1] >= 7 ELSE k[1] <= 2
  IN IF p.t = XQ_ROLES.R THEN inLine /\ Pieces(board, Between(sq, k)) = {}
     ELSE IF p.t = XQ_ROLES.C
       THEN inLine /\ Cardinality(Pieces(board, Between(sq, k))) = 1
     ELSE IF p.t = XQ_ROLES.H
       THEN \/ Abs(dr) = 2 /\ Abs(dc) = 1 /\ board[<<sq[1] + Sign(dr), sq[2]>>] = NoPiece
            \/ Abs(dr) = 1 /\ Abs(dc) = 2 /\ board[<<sq[1], sq[2] + Sign(dc)>>] = NoPiece
     ELSE IF p.t = XQ_ROLES.E
       THEN /\ Abs(dr) = 2 /\ Abs(dc) = 2 /\ ownSide
            /\ board[<<sq[1] + Sign(dr), sq[2] + Sign(dc)>>] = NoPiece
     ELSE IF p.t = XQ_ROLES.A THEN Abs(dr) = 1 /\ Abs(dc) = 1 /\ ownPalace
     ELSE IF p.t = XQ_ROLES.K
       THEN \/ Abs(dr) + Abs(dc) = 1 /\ ownPalace
            \/ dc = 0 /\ dr # 0 /\ Pieces(board, Between(sq, k)) = {}
     ELSE IF p.t = XQ_ROLES.P
       THEN \/ dr = forward /\ dc = 0
            \/ crossed /\ dr = 0 /\ Abs(dc) = 1
     ELSE FALSE

\* the king of `color` is attacked by an enemy piece, or faces the enemy
\* king on a file with nothing between them
Attacked(board, color) ==
  \E k \in Squares :
    /\ board[k].t = XQ_ROLES.K /\ board[k].c = color
    /\ \E sq \in Squares :
         board[sq] # NoPiece /\ board[sq].c # color /\ Attacks(board, sq, k)

\* the unfiltered moves of every piece of `color`
RawMoves(board, color) ==
  UNION {getRawMoves(board, sq[1], sq[2], board[sq].t, color) :
           sq \in {q \in Squares : board[q] # NoPiece /\ board[q].c = color}}

\* C31: in every position reached through accepted moves, every move that
\* getMoves returns for the side to move leaves that side's king attacked
\* by no enemy piece and not facing the enemy king, so that right after an
\* accepted move the mover's king is safe; and the simulation of a move
\* gives the board back as it was.
C31_LegalMovesKeepKingSafe ==
  kind = "xq" =>
    \A e \in {buildXqEngineFromMoves(xq_room.moves)} :
      /\ \A m \in getMoves(e.board, e.turn) : ~Attacked(Moved(e.board, m), e.turn)
      /\ \A m \in RawMoves(e.board, e.turn) :
           \A sq \in Squares : checkSimulate_board(e.board, m)[sq] = e.board[sq]
      /\ Len(xq_room.moves) > 0 => ~Attacked(e.board, -e.turn)

\* black is to move and its advisor may not step between the red cannon
\* on (3,4) and its king: the step is a raw move that getMoves filters out
C31_ScreenStepRefused ==
  /\ kind = "xq" /\ Len(xq_room.moves) = 5
  /\ \A e \in {buildXqEngineFromMoves(xq_room.moves)} :
       /\ XqMove(0, 3, 1, 4) \in RawMoves(e.board, e.turn)
       /\ XqMove(0, 3, 1, 4) \notin getMoves(e.board, e.turn)
       /\ Attacked(Moved(e.board, XqMove(0, 3, 1, 4)), e.turn)

\* where the rules let the cannon on sq go: along a row or a column to an
\* empty square with nothing in between, or onto an enemy piece across
\* exactly one piece
CannonTargets(board, sq) ==
  {k \in Squares :
     /\ k # sq /\ (k[1] = sq[1] \/ k[2] = sq[2])
     /\ \/ board[k] = NoPiece /\ Pieces(board, Between(sq, k)) = {}
        \/ /\ board[k] # NoPiece /\ board[k].c # board[sq].c
           /\ Cardinality(Pieces(board, Between(sq, k))) = 1}

\* C32: the raw moves of a cannon are exactly the empty squares it reaches
\* orthogonally with no piece in between and the enemy pieces it reaches
\* across exactly one piece: it never takes across no piece or across two
\* or more, and never lands on an empty square beyond its screen.
C32_CannonMovesExact ==
  kind = "xq" =>
    \A board \in {buildXqEngineFromMoves(xq_room.moves).board} :
      \A sq \in {q \in Squares : board[q].t = XQ_ROLES.C} :
        {<<m.to.r, m.to.c>> : m \in getRawMoves(board, sq[1], sq[2], XQ_ROLES.C, board[sq].c)}
          = CannonTargets(board, sq)

\* the red cannon on (4,4) takes on (0,4) across its screen on (3,4), and
\* goes to neither empty square beyond the screen
C32_TakesAcrossScreen ==
  /\ kind = "xq" /\ Len(xq_room.moves) = 7
  /\ \A board \in {buildXqEngineFromMoves(xq_room.moves).board} :
       \A raw \in {getRawMoves(board, 4, 4, XQ_ROLES.C, XQ_RED_COLOR)} :
         /\ board[<<4, 4>>] = [t |-> XQ_ROLES.C, c |-> XQ_RED_COLOR]
         /\ XqMove(4, 4, 0, 4) \in raw
         /\ XqMove(4, 4, 2, 4) \notin raw /\ XqMove(4, 4, 1, 4) \notin raw

\* the role the record gives to a token of a Xiangqi room
XqRoleOf(token, room) ==
  IF token # "" /\ token = room.redToken THEN XQ_RED
  ELSE IF token # "" /\ token = room.blackToken THEN XQ_BLACK
  ELSE 0

\* C33: a timeout is accepted only from the holder of a seat whose turn it
\* is while the game is not over; it then sets gameOver, gives the win to
\* the sender's opponent with the timeout reason and leaves moves, current
\* and the seat tokens as they were; from anyone else, or in any other
\* state, it is rejected and changes nothing.
C33_TimeoutOnlyOnOwnTurn ==
  [][\A c \in Conn :
       /\ GomokuRoom_webSocketMessage(c, [type |-> "timeout"])
            => \A role \in {_roleFromToken(ws[c].att.token, gm_room)} :
                 IF role \in {GOMOKU_BLACK, GOMOKU_WHITE}
                      /\ ~gm_room.gameOver /\ gm_room.current = role
                   THEN gm_room' = [gm_room EXCEPT !.gameOver = TRUE,
                                                   !.winner = Other(role),
                                                   !.reason = CHAO_SHI]
                   ELSE RejectTo(c) /\ gm_room' = gm_room
       /\ RelayRoom_webSocketMessage(c, [type |-> "xq_timeout"])
            => \A role \in {XqRoleOf(ws[c].att.token, xq_room)} :
                 IF role \in {XQ_RED, XQ_BLACK}
                      /\ ~xq_room.gameOver /\ xq_room.current = role
                   THEN xq_room' = [xq_room EXCEPT !.gameOver = TRUE,
                                                   !.winner = XqOther(role),
                                                   !.reason = CHAO_SHI]
                   ELSE RejectTo(c) /\ xq_room' = xq_room]_vars

\* the last entry of a moves list, or null
Last(moves) == IF Len(moves) = 0 THEN null ELSE moves[Len(moves)]

\* C34: when the put of a move fails the handler ends without a broadcast
\* and the stored record is the one it loaded: every move or xq_move that
\* clients are told of is the last entry of the stored moves list, and
\* after a handler threw nothing was sent.
C34_NoBroadcastOfUnstoredMove ==
  /\ \A i \in 1..Len(out) :
       /\ (out[i].m.type = "move" /\ out[i].m.r >= 0)
            => Last(gm_room.moves) = [r |-> out[i].m.r, c |-> out[i].m.c, p |-> out[i].m.p]
       /\ out[i].m.type = "xq_move"
            => Last(xq_room.moves) = [from |-> out[i].m.from, to |-> out[i].m.to,
                                      p |-> out[i].m.p]
  /\ (\E i \in 1..Len(out) : out[i] = Threw) => out = <<Threw>>

\* white's first stone was lost with its put: the handler threw, black's
\* stone is the one stored and it is still white's turn
C34_StoneLost ==
  /\ kind = "gomoku" /\ out = <<Threw>>
  /\ Len(gm_room.moves) = 1 /\ gm_room.current = GOMOKU_WHITE

\* the last handler was the open of socket w, which was given a seat under
\* the token minted last: the holder of that seat has sent nothing yet
JustSeated(w) ==
  /\ Len(out) > 0 /\ out[1].to = {w} /\ out[1].m.type = "init"
  /\ out[1].m.you # 0
  /\ uuid > 0 /\ out[1].m.token = randomUUID(uuid - 1)
  /\ ws[w].status = "open" /\ ws[w].att.token = out[1].m.token

\* C35: a rematch or swap reset takes the consent of both current holders
\* of the seats, each having sent the vote itself since the votes were last
\* cleared; the vote of an earlier holder of a seat does not count for the
\* new one.  So no reset is made by the message that follows the open which
\* seated a new holder, who has not voted.
C35_ResetNeedsBothHolders ==
  [][\A c \in Conn : \A w \in Conn \ {c} :
       (/\ JustSeated(w)
        /\ \/ \E msg \in GmMessages : GomokuRoom_webSocketMessage(c, msg)
           \/ \E msg \in XqMessages : RelayRoom_webSocketMessage(c, msg))
         => ~ResetSent]_vars

\* C36: in every state of a room gameOver is true exactly when winner is
\* 1 or 2; while the game is on, winner is 0 and reason is empty; once it
\* is over, reason is not empty.
C36_OverIffWinner ==
  \A room \in {gm_room, xq_room} :
    /\ room.gameOver \in BOOLEAN /\ room.winner \in {0, 1, 2}
    /\ room.gameOver <=> room.winner \in {1, 2}
    /\ ~room.gameOver => room.winner = 0 /\ room.reason = ""
    /\ room.gameOver => room.reason # ""

\* a Xiangqi game ended by a timeout of red
C36_TimedOut ==
  /\ kind = "xq" /\ xq_room.gameOver /\ xq_room.winner = XQ_BLACK
  /\ xq_room.reason = CHAO_SHI

\* C37: relay connections and Xiangqi connections never share a RelayRoom
\* actor: the requests whose actor name game:room is the same are all
\* handled as Xiangqi or all as relay, so that the sockets attached to one
\* actor are of one kind and what a relay client sends reaches no Xiangqi
\* client.
C37_OneKindPerActor ==
  /\ \A c \in Conn : \A w \in Conn :
       (ws[c].status = "open" /\ ws[w].status = "open")
         => ws[c].att.game = ws[w].att.game
  /\ \A i \in 1..Len(out) :
       out[i].m.type \in {"chat", "xq_reset"}
         => \A w \in out[i].to : ws[w].att.game = "relay"

\* C38: in the variant of src/unnamed/part_001 an accepted move ends the game
\* only if the mover then has five or more stones next to each other in a
\* line through the placed cell; any other accepted move leaves gameOver
\* false and passes the turn to the other colour.
C38_WinOnlyOnFive ==
  [][\A c \in Conn, msg \in LegacyMoves :
       (/\ GomokuRoom_onMessage_part001(c, msg)
        /\ Len(gm_room'.moves) = Len(ws[c].room.moves) + 1)
       => \A m \in {Last(gm_room'.moves)} :
            \/ FiveThrough(Stones(gm_room'.moves, m.p), m.r, m.c)
            \/ /\ ~gm_room'.gameOver
               /\ gm_room'.current = (IF m.p = BLACK THEN WHITE ELSE BLACK)]_vars

\* C39: in the connection-order variants the first connection to a fresh
\* room is black, the second white and every later one a spectator, whatever
\* happened between the connections; at most one connection plays black.
C39_ColourByArrival ==
  [][\A c \in Conn :
       GomokuRoom_fetch_part001(c)
       => ws'[c].you = (IF uuid = 0 THEN BLACK ELSE IF uuid = 1 THEN WHITE ELSE 0)]_vars

====
